---- MODULE Spec2Model ----
(***************************************************************************)
(* A model of the GitHub agent repository:                                 *)
(*   - the tool dispatch loop of SimpleGitHubAgent.chat                    *)
(*     (src/simple_agent_executor.py) and of                               *)
(*     OpenAIAgentExecutor._process_request                                *)
(*     (src/other/openai_agent_executor.py), specification Spec;           *)
(*   - the diff symbol extractor GitHubToolset._parse_symbols_from_patch   *)
(*     (src/github_toolset.py), specification SpecExtract.                 *)
(***************************************************************************)
EXTENDS Integers, Sequences, FiniteSets, TLC

VARIABLES
    surface,        \* "chat": SimpleGitHubAgent.chat, "full": _process_request
    pc,             \* position of the turn: "loop", "await", "exec", "done"
    iteration,      \* the local variable iteration
    messages,       \* the local list messages (the conversation history)
    batch,          \* message.tool_calls of the reply being executed
    idx,            \* index in batch of the next tool call to execute
    result,         \* chat: the value returned (a sequence of at most one text);
                    \* full: the artifacts added with task_updater.add_artifact
    completes,      \* full: number of task_updater.complete() calls
    status_updates, \* full: number of task_updater.update_status() calls
    model_calls,    \* number of chat.completions.create calls of the turn
    tool_runs,      \* ids of the calls whose tool method was invoked, in order
    raised,         \* what raised in the turn: "none", "model", "args", "tool"
    varied,         \* deviation budget spent by the model's replies (a bound)
    filename,       \* extractor input: the filename
    patch,          \* extractor input: the patch, None or a sequence of lines
    symbols,        \* extractor output: the list returned
    language_tag,   \* the language tag inferred from the filename
    change_types,   \* extractor: the change_type computed for each line
    xraised,        \* extractor: the call raised instead of returning
    xpc,            \* extractor position: "ready", "returned"
    op,             \* toolset: the public operation called
    args,           \* toolset: the arguments of the call
    world,          \* toolset: what the GitHub collaborator holds and does
    response,       \* toolset: the response object returned
    tpc,            \* toolset position: "called", "returned", "propagated"
    func,           \* schema builder input: the tool function
    schema,         \* schema builder output: the schema returned
    spc,            \* schema builder position: "ready", "returned"
    oauth_states,   \* web app: the dict oauth_states
    sessions,       \* web app: the dict sessions
    tokens,         \* token_storage._tokens
    now,            \* web app: datetime.now(), in ticks
    issued,         \* web app: number of state values generated so far
    sessions_made,  \* web app: number of session ids generated so far
    pending,        \* web app: callbacks suspended in the token exchange,
                    \* counted by state value
    exchanges,      \* web app: token exchanges begun, counted by state value
    last,           \* web app: the request handled last and its response
    _user_id,       \* toolset: self._user_id
    _github_client, \* toolset: self._github_client, None or the client cached
    environ,        \* os.environ: GITHUB_TOKEN, None when not set
    clients_made,   \* number of Github(...) objects constructed so far
    returned,       \* what the calls of _get_github_client returned, in order
    runs_as         \* agent turn: the credential and the account of the
                    \* repositories of each tool call executed, in order

loopVars == <<surface, pc, iteration, messages, batch, idx, result, completes,
              status_updates, model_calls, tool_runs, raised, varied>>
extractVars == <<filename, patch, symbols, language_tag, change_types, xraised, xpc>>
toolVars == <<op, args, world, response, tpc>>
schemaVars == <<func, schema, spc>>
webVars == <<oauth_states, sessions, tokens, now, issued, sessions_made,
             pending, exchanges, last>>
clientVars == <<_user_id, _github_client, environ, clients_made, returned, runs_as>>
vars == <<loopVars, extractVars, toolVars, schemaVars, webVars, clientVars>>

\* what the operations of one part leave alone: the variables of the others
besidesLoop == <<extractVars, toolVars, schemaVars, webVars, clientVars>>
besidesExtract == <<loopVars, toolVars, schemaVars, webVars, clientVars>>
besidesTools == <<loopVars, extractVars, schemaVars, webVars, clientVars>>
besidesSchema == <<loopVars, extractVars, toolVars, webVars, clientVars>>
besidesWeb == <<loopVars, extractVars, toolVars, schemaVars, clientVars>>
besidesClient == <<loopVars, extractVars, toolVars, schemaVars, oauth_states,
                   sessions, now, issued, sessions_made, pending, exchanges, last>>

----------------------------------------------------------------------------
(* Bounds of the model *)

\* the largest number of tool calls one model reply may request
MaxBatch == 2
\* the budget of a turn for replies that deviate from the plain reply (one
\* call of a registered tool with good arguments and no text): every extra
\* call, every call that is not plain and every text beside tool calls
\* costs one
MaxVaried == 2
\* the largest number of lines of a patch
MaxLines == 2

----------------------------------------------------------------------------
(* The tool dispatch loop *)

\* max_iterations = 5 in SimpleGitHubAgent.chat
ChatMaxIterations == 5
\* max_iterations = 10 in OpenAIAgentExecutor._process_request
FullMaxIterations == 10

Surfaces == {"chat", "full"}

max_iterations == IF surface = "chat" THEN ChatMaxIterations ELSE FullMaxIterations

\* The registered tool table. chat: GitHubToolset.get_tools(), every name
\* mapped to the toolset itself (one name stands for the four); full: the
\* constructor's tools argument, which may hold an instance that lacks the
\* operation of its name.
tools_dict(s) ==
    IF s = "chat" THEN {"get_commit_diff"}
    ELSE {"get_commit_diff", "orphan_tool"}

\* hasattr(tool_instance, function_name)
hasattr(name) == name = "get_commit_diff"

\* What the model may name in a tool call, with the arguments it sends:
\* "good" (JSON the method accepts), "raising" (JSON on which the method
\* raises, e.g. an unexpected keyword), "malformed" (json.loads raises).
PlainShape == [name |-> "get_commit_diff", args |-> "good"]
CallShapes ==
    { PlainShape,
      [name |-> "get_commit_diff", args |-> "raising"],
      [name |-> "get_commit_diff", args |-> "malformed"],
      [name |-> "no_such_tool", args |-> "good"],
      [name |-> "no_such_tool", args |-> "malformed"],
      [name |-> "orphan_tool", args |-> "good"] }

BatchShapes == UNION { [1..n -> CallShapes] : n \in 1..MaxBatch }

\* message.content of a reply: None, the empty string or a text
ToolReplyContents == {"None", "thinking"}
FinalReplyContents == {"None", "", "answer"}

\* Python truthiness of message.content
Truthy(content) == content \notin {"None", ""}

\* the budget a reply with tool calls spends (a bound of the model)
Cost(shapes, content) ==
    (Len(shapes) - 1)
    + Cardinality({i \in 1..Len(shapes) : shapes[i] # PlainShape})
    + (IF content # "None" THEN 1 ELSE 0)

\* the tool calls of a reply, each with its unique correlation id
ToolCalls(shapes, round) ==
    [i \in 1..Len(shapes) |->
        [id |-> <<round, i>>, name |-> shapes[i].name, args |-> shapes[i].args]]

NoId == <<0, 0>>

Msg(role, content, enc, calls, id) ==
    [role |-> role, content |-> content, enc |-> enc,
     tool_calls |-> calls, tool_call_id |-> id]

\* messages = [system, user]
InitialMessages ==
    << Msg("system", "system_prompt", "text", <<>>, NoId),
       Msg("user", "message", "text", <<>>, NoId) >>

\* a faulty variant of AppendMessage: the history is cut to its last four messages
AppendMessageTruncating(msgs, m) ==
    IF Len(msgs) >= 4 THEN SubSeq(msgs, Len(msgs) - 2, Len(msgs)) \o <<m>>
    ELSE Append(msgs, m)

\* messages.append(m)
AppendMessage(msgs, m) == Append(msgs, m)

\* messages.append({'role': 'assistant', ...})
AssistantMsg(content, calls) == Msg("assistant", content, "text", calls, NoId)

\* the serialisation of a tool result: json.dumps for a pydantic model or a
\* dict, str() for anything else
Serialize(res) ==
    IF res.type \in {"model", "dict"} THEN [content |-> res.value, enc |-> "json"]
    ELSE [content |-> res.value, enc |-> "str"]

\* a faulty variant of ToolMsg: every result is correlated to the first call of the batch
ToolMsgFirstId(call, res) ==
    Msg("tool", Serialize(res).content, Serialize(res).enc, <<>>, <<call.id[1], 1>>)

\* messages.append({'role': 'tool', 'tool_call_id': tool_call.id, ...})
ToolMsg(call, res) ==
    Msg("tool", Serialize(res).content, Serialize(res).enc, <<>>, call.id)

MethodResult == [type |-> "model", value |-> "response"]
MethodMissing == [type |-> "dict", value |-> "error: method not found on tool instance"]
FunctionMissing == [type |-> "dict", value |-> "error: function not found"]

\* a faulty variant of LookupResult: the hasattr check is missing
LookupResultNoHasattr(call) ==
    IF call.name \in tools_dict(surface) THEN MethodResult ELSE FunctionMissing

\* the execution of one tool call, without the raising cases: the lookup in
\* the table, the hasattr check and the method call
LookupResult(call) ==
    IF call.name \in tools_dict(surface)
    THEN IF hasattr(call.name) THEN MethodResult ELSE MethodMissing
    ELSE FunctionMissing

\* the method of the call is reached (and invoked)
Invokes(call) == call.name \in tools_dict(surface) /\ hasattr(call.name)

\* what raises when the call is executed: json.loads, the method, or nothing
CallRaises(call) ==
    IF call.args = "malformed" THEN "args"
    ELSE IF Invokes(call) /\ call.args = "raising" THEN "tool"
    ELSE "none"

ExceededText == [kind |-> "exceeded", text |-> "maximum number of iterations"]
ErrorText(cause) == [kind |-> "error", text |-> cause]
AnswerText(content) == [kind |-> "answer", text |-> content]

\* a faulty variant of LoopGuard: the bound is tested inclusively
LoopGuardInclusive == iteration <= max_iterations

\* while iteration < max_iterations
LoopGuard == iteration < max_iterations

\* a faulty variant of AfterLoopExceeded: the ceiling is tested strictly
AfterLoopStrict == iteration > max_iterations

\* full: the statement after the loop, if iteration >= max_iterations
AfterLoopExceeded == iteration >= max_iterations

\* The end of the turn when the loop is left with what was emitted inside it
\* (emitted: a sequence of texts, one complete() each in the full surface).
\* chat returns from inside the loop, or falls to the return after it;
\* full breaks, and the statement after the loop may add the advisory.
Finish(emitted, cause) ==
    /\ pc' = "done"
    /\ raised' = cause
    /\ IF surface = "chat"
       THEN /\ result' = (IF emitted = <<>> THEN <<ExceededText>> ELSE emitted)
            /\ completes' = 0
       ELSE /\ result' = (IF AfterLoopExceeded THEN emitted \o <<ExceededText>>
                          ELSE emitted)
            /\ completes' = Len(emitted) + (IF AfterLoopExceeded THEN 1 ELSE 0)

\* the except branch around one round: the error text is the outcome
ExceptHandler(cause) == Finish(<<ErrorText(cause)>>, cause)

\* the loop condition holds: iteration += 1 and the model call is issued
ModelCall ==
    /\ pc = "loop"
    /\ LoopGuard
    /\ iteration' = iteration + 1
    /\ model_calls' = model_calls + 1
    /\ pc' = "await"
    /\ UNCHANGED <<surface, messages, batch, idx, result, completes,
                   status_updates, tool_runs, raised, varied>>
    /\ UNCHANGED besidesLoop

\* the loop condition fails: the loop ends by exhaustion
LoopExit ==
    /\ pc = "loop"
    /\ ~LoopGuard
    /\ Finish(<<>>, "none")
    /\ UNCHANGED <<surface, iteration, messages, batch, idx, status_updates,
                   model_calls, tool_runs, varied>>
    /\ UNCHANGED besidesLoop

\* the awaited model call raises
ModelRaises ==
    /\ pc = "await"
    /\ ExceptHandler("model")
    /\ UNCHANGED <<surface, iteration, messages, batch, idx, status_updates,
                   model_calls, tool_runs, varied>>
    /\ UNCHANGED besidesLoop

\* the model replies with tool calls
ModelRequestsTools ==
    /\ pc = "await"
    /\ \E shapes \in BatchShapes, content \in ToolReplyContents :
        /\ varied + Cost(shapes, content) <= MaxVaried
        /\ varied' = varied + Cost(shapes, content)
        /\ messages' = AppendMessage(messages,
                              AssistantMsg(content, ToolCalls(shapes, iteration)))
        /\ batch' = ToolCalls(shapes, iteration)
        /\ idx' = 1
        /\ pc' = "exec"
    /\ UNCHANGED <<surface, iteration, result, completes, status_updates,
                   model_calls, tool_runs, raised>>
    /\ UNCHANGED besidesLoop

\* the model replies without tool calls
ModelRepliesFinal ==
    /\ pc = "await"
    /\ \E content \in FinalReplyContents :
        /\ messages' = AppendMessage(messages, AssistantMsg(content, <<>>))
        /\ IF Truthy(content)
           THEN Finish(<<AnswerText(content)>>, "none")
           ELSE Finish(<<>>, "none")
    /\ UNCHANGED <<surface, iteration, batch, idx, status_updates,
                   model_calls, tool_runs, varied>>
    /\ UNCHANGED besidesLoop

\* the next tool call of the batch is executed
ExecuteToolCall ==
    /\ pc = "exec"
    /\ LET call == batch[idx] IN
        /\ tool_runs' = (IF Invokes(call) /\ call.args # "malformed"
                         THEN Append(tool_runs, call.id) ELSE tool_runs)
        /\ IF CallRaises(call) # "none"
           THEN /\ ExceptHandler(CallRaises(call))
                /\ UNCHANGED <<messages, idx, status_updates>>
           ELSE /\ messages' = AppendMessage(messages, ToolMsg(call, LookupResult(call)))
                /\ IF idx < Len(batch)
                   THEN /\ idx' = idx + 1
                        /\ pc' = "exec"
                        /\ UNCHANGED status_updates
                   ELSE /\ idx' = idx
                        /\ pc' = "loop"
                        /\ status_updates' =
                             (IF surface = "full" THEN status_updates + 1
                              ELSE status_updates)
                /\ UNCHANGED <<result, completes, raised>>
    /\ UNCHANGED <<surface, iteration, batch, model_calls, varied>>
    /\ UNCHANGED besidesLoop

LoopInit ==
    /\ surface \in Surfaces
    /\ pc = "loop"
    /\ iteration = 0
    /\ messages = InitialMessages
    /\ batch = <<>>
    /\ idx = 0
    /\ result = <<>>
    /\ completes = 0
    /\ status_updates = 0
    /\ model_calls = 0
    /\ tool_runs = <<>>
    /\ raised = "none"
    /\ varied = 0

ExtractIdle ==
    /\ filename = <<>>
    /\ patch = <<>>
    /\ symbols = <<>>
    /\ language_tag = ""
    /\ change_types = <<>>
    /\ xraised = FALSE
    /\ xpc = "idle"

ToolsIdle ==
    /\ op = ""
    /\ args = <<>>
    /\ world = <<>>
    /\ response = <<>>
    /\ tpc = "idle"

SchemaIdle ==
    /\ func = <<>>
    /\ schema = <<>>
    /\ spc = "idle"

\* the web application as it is when the module is loaded; no request yet
WebIdle ==
    /\ oauth_states = <<>>
    /\ sessions = <<>>
    /\ tokens = <<>>
    /\ now = 0
    /\ issued = 0
    /\ sessions_made = 0
    /\ pending = <<>>
    /\ exchanges = <<>>
    /\ last = [endpoint |-> ""]

ClientIdle ==
    /\ _user_id = <<>>
    /\ _github_client = <<>>
    /\ environ = <<>>
    /\ clients_made = 0
    /\ returned = <<>>
    /\ runs_as = <<>>

OthersIdle == SchemaIdle /\ WebIdle /\ ClientIdle

Init == LoopInit /\ ExtractIdle /\ ToolsIdle /\ OthersIdle

Next ==
    \/ ModelCall
    \/ LoopExit
    \/ ModelRaises
    \/ ModelRequestsTools
    \/ ModelRepliesFinal
    \/ ExecuteToolCall

Spec == Init /\ [][Next]_vars

----------------------------------------------------------------------------
(* Properties of the tool dispatch loop *)

AssistantAt == {p \in 1..Len(messages) : messages[p].role = "assistant"}
ToolAt == {p \in 1..Len(messages) : messages[p].role = "tool"}

\* every model reply of the turn requested at least one tool call
AllRoundsRequestedTools ==
    \A p \in AssistantAt : messages[p].tool_calls # <<>>

\* C1: the number of model calls made within one turn never exceeds the
\* configured ceiling, 5 in the chat surface and 10 in the full surface.
C1_CallsWithinCeiling ==
    /\ model_calls <= max_iterations
    /\ surface = "chat" => model_calls <= 5
    /\ surface = "full" => model_calls <= 10

C1_Witness ==
    /\ surface = "full"
    /\ pc = "await"
    /\ model_calls = FullMaxIterations

\* C2: a turn in which every reply requested a tool call and nothing raised
\* ends by exhaustion after exactly ceiling-many model calls, its outcome
\* being the fixed advisory message alone.
C2_ExhaustionAtCeiling ==
    (pc = "done" /\ raised = "none" /\ AllRoundsRequestedTools)
        => /\ model_calls = max_iterations
           /\ result = <<ExceededText>>
           /\ surface = "full" => completes = 1

C2_Witness ==
    /\ pc = "done"
    /\ raised = "none"
    /\ AllRoundsRequestedTools
    /\ surface = "full"
    /\ Len(tool_runs) >= FullMaxIterations

\* the tool message with a structured error payload for the call
IsErrorToolMsg(m, call) ==
    /\ m.role = "tool"
    /\ m.tool_call_id = call.id
    /\ m.enc = "json"
    /\ m.content \in {MethodMissing.value, FunctionMissing.value, "error: tool raised"}

\* the execution of the batch goes on after the call at idx
BatchGoesOn ==
    /\ raised' = "none"
    /\ result' = result
    /\ IF idx < Len(batch) THEN pc' = "exec" /\ idx' = idx + 1 ELSE pc' = "loop"

\* C3: a tool call that raises does not end the turn: an error payload is
\* appended as the tool message of that call and the batch goes on with the
\* next call.
C3_ToolFailureContained ==
    [][ (pc = "exec" /\ CallRaises(batch[idx]) = "tool")
            => /\ Len(messages') = Len(messages) + 1
               /\ IsErrorToolMsg(messages'[Len(messages')], batch[idx])
               /\ BatchGoesOn ]_vars

\* C4: a turn whose model call raised ends with the error message as its
\* whole result (in the full surface one artifact and one complete()), and
\* nothing runs after the failure.
C4_ModelFailureEndsTurn ==
    /\ (pc = "done" /\ raised = "model")
          => /\ result = <<ErrorText("model")>>
             /\ surface = "full" => completes = 1
    /\ raised = "model" => pc = "done"

\* the reply of the last round, when it is a final text
LastIsFinalText ==
    /\ messages[Len(messages)].role = "assistant"
    /\ messages[Len(messages)].tool_calls = <<>>
    /\ Truthy(messages[Len(messages)].content)

\* C5: once a reply carries no tool call and a non-empty text, the turn is
\* done and that text is its whole result.
C5_FinalTextIsResult ==
    LastIsFinalText
        => /\ pc = "done"
           /\ result = <<AnswerText(messages[Len(messages)].content)>>
           /\ surface = "full" => completes = 1

\* the call names a tool that is not in the table, or one whose instance
\* lacks the operation, and its arguments parse
LookupMisses(call) ==
    /\ call.args # "malformed"
    /\ \/ call.name \notin tools_dict(surface)
       \/ ~hasattr(call.name)

Answered(p, n) ==
    /\ p + n <= Len(messages)
    /\ \A i \in 1..n :
        /\ messages[p + i].role = "tool"
        /\ messages[p + i].tool_call_id = messages[p].tool_calls[i].id

\* ids are in the order of the rounds and, within a round, of the batch
IdBefore(a, b) == a[1] < b[1] \/ (a[1] = b[1] /\ a[2] < b[2])

RECURSIVE CallCount(_)
CallCount(P) ==
    IF P = {} THEN 0
    ELSE LET p == CHOOSE q \in P : TRUE
         IN Len(messages[p].tool_calls) + CallCount(P \ {p})

\* C7: tool calls run in the order listed; while nothing has raised, each
\* requested call has exactly one tool message, with its id, in the same
\* order, and a model call is issued only when the whole batch is answered.
C7_BatchAnsweredInOrder ==
    /\ \A i, j \in 1..Len(tool_runs) : i < j => IdBefore(tool_runs[i], tool_runs[j])
    /\ pc \in {"loop", "await"} =>
          /\ \A p \in AssistantAt : Answered(p, Len(messages[p].tool_calls))
          /\ Cardinality(ToolAt) = CallCount(AssistantAt)
    /\ pc = "exec" =>
          /\ messages[Len(messages) - (idx - 1)].role = "assistant"
          /\ messages[Len(messages) - (idx - 1)].tool_calls = batch
          /\ Answered(Len(messages) - (idx - 1), idx - 1)

C7_Witness ==
    /\ pc = "await"
    /\ model_calls = 2
    /\ Len(messages) = 5
    /\ Len(messages[3].tool_calls) = 2
    /\ Len(tool_runs) = 2

IsPrefix(a, b) == Len(a) <= Len(b) /\ SubSeq(b, 1, Len(a)) = a

\* C8: the history starts as [system, user] and only grows: a model reply
\* appends exactly one assistant message, the execution of a tool call
\* appends at most one message, a tool message, and no other step changes it.
C8_HistoryAppendOnly ==
    [][ /\ IsPrefix(InitialMessages, messages)
        /\ IsPrefix(messages, messages')
        /\ pc = "loop" => messages' = messages
        /\ (pc = "await" /\ raised' # "model") =>
              /\ Len(messages') = Len(messages) + 1
              /\ messages'[Len(messages')].role = "assistant"
        /\ (pc = "await" /\ raised' = "model") => messages' = messages
        /\ pc = "exec" =>
              \/ messages' = messages
              \/ /\ Len(messages') = Len(messages) + 1
                 /\ messages'[Len(messages')].role = "tool" ]_vars

C8_Witness ==
    /\ pc = "done"
    /\ Cardinality(AssistantAt) = 3
    /\ Cardinality(ToolAt) >= 3

----------------------------------------------------------------------------
(* The symbol extractor                                                    *)
(*                                                                         *)
(* A text is a sequence of tokens, each token a fixed string: "+", "-",    *)
(* "@@", " ", "(", ")", ":", the digit "1" and the words "def", "class",   *)
(* "func", "struct", "x", "y". The regular expressions of the source are   *)
(* computed on these sequences as Python's re computes them on the         *)
(* characters.                                                             *)

\* \s
IsSpace(t) == t = " "
\* [A-Za-z_], the first character of an identifier
WordStartTokens == {"def", "class", "func", "struct", "x", "y"}
\* \w
WordTokens == WordStartTokens \cup {"1"}

\* line.startswith(prefix)
StartsWith(line, prefix) ==
    Len(line) >= Len(prefix) /\ SubSeq(line, 1, Len(prefix)) = prefix

\* \s* from position i: the first position that holds no space
RECURSIVE SkipSpaces(_, _)
SkipSpaces(line, i) ==
    IF i <= Len(line) /\ IsSpace(line[i]) THEN SkipSpaces(line, i + 1) ELSE i

\* \w* from position i: the first position that holds no word character
RECURSIVE SkipWord(_, _)
SkipWord(line, i) ==
    IF i <= Len(line) /\ line[i] \in WordTokens THEN SkipWord(line, i + 1) ELSE i

\* the token at position i, or "" past the end of the line
At(line, i) == IF i >= 1 /\ i <= Len(line) THEN line[i] ELSE ""

NoMatch == [ok |-> FALSE, name |-> <<>>]
Matched(name) == [ok |-> TRUE, name |-> name]

\* ([A-Za-z_][A-Za-z0-9_]*)\s*[closers] from position i; with closers
\* empty, the identifier alone
IdentThen(line, i, closers) ==
    IF At(line, i) \notin WordStartTokens THEN NoMatch
    ELSE LET e == SkipWord(line, i + 1)
             k == SkipSpaces(line, e)
         IN IF closers = {} \/ At(line, k) \in closers
            THEN Matched(SubSeq(line, i, e - 1))
            ELSE NoMatch

\* ^[+\-]\s*KEYWORD\s+([A-Za-z_][A-Za-z0-9_]*)\s*[closers]
\* python func and method: def ... \( ; python class: class ... [:\(]
SignedDecl(line, keyword, closers) ==
    IF At(line, 1) \notin {"+", "-"} THEN NoMatch
    ELSE LET k == SkipSpaces(line, 2)
         IN IF At(line, k) # keyword \/ ~IsSpace(At(line, k + 1)) THEN NoMatch
            ELSE IdentThen(line, SkipSpaces(line, k + 1), closers)

\* \([^)]*\) from position i: the position after the closing parenthesis,
\* 0 when there is none
RECURSIVE SkipParens(_, _)
SkipParens(line, i) ==
    IF i > Len(line) THEN 0
    ELSE IF line[i] = ")" THEN i + 1
    ELSE SkipParens(line, i + 1)

\* go func: ^[+\-]\s*func\s+(?:\([^)]*\)\s*)?([A-Za-z_][\w]*)\s*\(
GoFunc(line) ==
    IF At(line, 1) \notin {"+", "-"} THEN NoMatch
    ELSE LET k == SkipSpaces(line, 2)
         IN IF At(line, k) # "func" \/ ~IsSpace(At(line, k + 1)) THEN NoMatch
            ELSE LET a == SkipSpaces(line, k + 1)
                     r == IF At(line, a) = "(" THEN SkipParens(line, a + 1) ELSE 0
                 IN IF r # 0 /\ IdentThen(line, SkipSpaces(line, r), {"("}).ok
                    THEN IdentThen(line, SkipSpaces(line, r), {"("})
                    ELSE IdentThen(line, a, {"("})

\* go class: \bstruct\b\s+([A-Za-z_][\w]*), matched at the start of the line
GoStruct(line) ==
    IF At(line, 1) # "struct" \/ ~IsSpace(At(line, 2)) THEN NoMatch
    ELSE IdentThen(line, SkipSpaces(line, 2), {})

\* go method: ^[+\-]\s*func\s*\([^)]*\)\s*([A-Za-z_][\w]*)\s*\(
GoMethod(line) ==
    IF At(line, 1) \notin {"+", "-"} THEN NoMatch
    ELSE LET k == SkipSpaces(line, 2)
         IN IF At(line, k) # "func" THEN NoMatch
            ELSE LET a == SkipSpaces(line, k + 1)
                     r == IF At(line, a) = "(" THEN SkipParens(line, a + 1) ELSE 0
                 IN IF r = 0 THEN NoMatch
                    ELSE IdentThen(line, SkipSpaces(line, r), {"("})

\* java func and method:
\* ^[+\-]\s*(?:public|...|default)?\s*[\w\<\>\[\]]+\s+([a-zA-Z_][\w]*)\s*\(
\* no token is a modifier or begins one, so the optional group matches
\* nothing; the type is a run of word tokens followed by a space
JavaFunc(line) ==
    IF At(line, 1) \notin {"+", "-"} THEN NoMatch
    ELSE LET k == SkipSpaces(line, 2)
             e == SkipWord(line, k)
         IN IF e = k \/ ~IsSpace(At(line, e)) THEN NoMatch
            ELSE IdentThen(line, SkipSpaces(line, e), {"("})

\* java class:
\* ^[+\-]\s*(?:public|private|protected)?\s*(?:final\s+)?class\s+([A-Za-z_][\w]*)
JavaClass(line) == SignedDecl(line, "class", {})

\* str.lower() of a token
Lower(t) ==
    CASE t = ".PY" -> ".py"
      [] t = ".TS" -> ".ts"
      [] t = ".TSX" -> ".tsx"
      [] t = ".JS" -> ".js"
      [] t = ".JSX" -> ".jsx"
      [] t = ".JAVA" -> ".java"
      [] t = ".GO" -> ".go"
      [] t = ".CLS" -> ".cls"
      [] t = ".TRIGGER" -> ".trigger"
      [] t = ".APEX" -> ".apex"
      [] t = ".CSS" -> ".css"
      [] t = ".HTML" -> ".html"
      [] t = ".HTM" -> ".htm"
      [] t = ".C" -> ".c"
      [] t = ".CPP" -> ".cpp"
      [] t = ".CC" -> ".cc"
      [] t = ".CXX" -> ".cxx"
      [] t = ".HPP" -> ".hpp"
      [] t = ".HH" -> ".hh"
      [] t = ".HXX" -> ".hxx"
      [] t = ".CS" -> ".cs"
      [] t = ".H" -> ".h"
      [] t = ".TXT" -> ".txt"
      [] t = ".Py" -> ".py"
      [] t = "B" -> "b"
      [] t = "FOO" -> "foo"
      [] t = "Foo" -> "foo"
      [] OTHER -> t

\* lower.endswith(ext), a filename being a stem followed by its extension
\* a faulty variant of EndsWith: the name is compared as written
EndsWithAsWritten(name, exts) == Len(name) >= 1 /\ name[Len(name)] \in exts

EndsWith(name, exts) == Len(name) >= 1 /\ Lower(name[Len(name)]) \in exts

_infer_language_from_filename(name) ==
    IF EndsWith(name, {".py"}) THEN "python"
    ELSE IF EndsWith(name, {".ts", ".tsx"}) THEN "typescript"
    ELSE IF EndsWith(name, {".js", ".jsx"}) THEN "javascript"
    ELSE IF EndsWith(name, {".java"}) THEN "java"
    ELSE IF EndsWith(name, {".go"}) THEN "go"
    ELSE IF EndsWith(name, {".cls", ".trigger", ".apex"}) THEN "apex"
    ELSE IF EndsWith(name, {".css"}) THEN "css"
    ELSE IF EndsWith(name, {".html", ".htm"}) THEN "html"
    ELSE IF EndsWith(name, {".c"}) THEN "c"
    ELSE IF EndsWith(name, {".cpp", ".cc", ".cxx", ".hpp", ".hh", ".hxx"}) THEN "cpp"
    ELSE IF EndsWith(name, {".cs"}) THEN "csharp"
    ELSE IF EndsWith(name, {".h"}) THEN "c"
    ELSE "unknown"

\* a faulty variant of lang_patterns: the method pattern comes first
lang_patternsMethodFirst(language) ==
    CASE language = "python" -> <<"method", "class", "func">>
      [] language = "go" -> <<"method", "class", "func">>
      [] language = "java" -> <<"method", "class", "func">>
      [] OTHER -> <<>>

\* a faulty variant of lang_patterns: the func entry of the python and java
\* tables comes last
lang_patternsFuncLast(language) ==
    CASE language = "python" -> <<"class", "method", "func">>
      [] language = "java" -> <<"class", "method", "func">>
      [] language = "go" -> <<"func", "class", "method">>
      [] OTHER -> <<>>

\* the keys of patterns_by_lang[language], in the order of the table; the
\* tables of python, java and go are modelled, css, html and unknown have
\* none
lang_patterns(language) ==
    CASE language = "python" -> <<"func", "class", "method">>
      [] language = "java" -> <<"func", "class", "method">>
      [] language = "go" -> <<"func", "class", "method">>
      [] OTHER -> <<>>

\* pattern.match(line) for the pattern of the key in the language's table
PatternMatch(language, key, line) ==
    CASE language = "python" /\ key = "func" -> SignedDecl(line, "def", {"("})
      [] language = "python" /\ key = "class" -> SignedDecl(line, "class", {":", "("})
      [] language = "python" /\ key = "method" -> SignedDecl(line, "def", {"("})
      [] language = "java" /\ key = "func" -> JavaFunc(line)
      [] language = "java" /\ key = "class" -> JavaClass(line)
      [] language = "java" /\ key = "method" -> JavaFunc(line)
      [] language = "go" /\ key = "func" -> GoFunc(line)
      [] language = "go" /\ key = "class" -> GoStruct(line)
      [] language = "go" /\ key = "method" -> GoMethod(line)
      [] OTHER -> NoMatch

ModifiedSymbol(name, kind, change_type, file) ==
    [name |-> name, kind |-> kind, change_type |-> change_type, file |-> file]

\* a faulty variant of KindOf: the key of the table is used as the kind
KindOfKey(key) == key

\* 'method' if kind == 'method' else ('class' if kind == 'class' else 'function')
KindOf(key) ==
    IF key = "method" THEN "method"
    ELSE IF key = "class" THEN "class"
    ELSE "function"

\* a faulty variant of ChangeType: the file-header markers are not excluded
ChangeTypeBySign(line) ==
    IF StartsWith(line, <<"+">>) THEN "added"
    ELSE IF StartsWith(line, <<"-">>) THEN "removed"
    ELSE "modified"

\* the change type of a line
ChangeType(line) ==
    IF StartsWith(line, <<"+">>) /\ ~StartsWith(line, <<"+", "+", "+">>) THEN "added"
    ELSE IF StartsWith(line, <<"-">>) /\ ~StartsWith(line, <<"-", "-", "-">>) THEN "removed"
    ELSE "modified"

\* hunk_header_re.match(line) of a line that starts with @@: group(1), the
\* text after the closing @@ and the spaces that follow it
RECURSIVE FindClosing(_, _)
FindClosing(line, i) ==
    IF i > Len(line) THEN 0
    ELSE IF line[i] = "@@" THEN i
    ELSE FindClosing(line, i + 1)

\* str.strip() at the right end: the length without the trailing spaces
RECURSIVE StripEnd(_, _)
StripEnd(text, n) ==
    IF n >= 1 /\ IsSpace(text[n]) THEN StripEnd(text, n - 1) ELSE n

Strip(text) ==
    LET a == SkipSpaces(text, 1)
        b == StripEnd(text, Len(text))
    IN IF a > b THEN <<>> ELSE SubSeq(text, a, b)

\* a faulty variant of SearchCall: no space is allowed before the parenthesis
RECURSIVE SearchCallImmediate(_, _)
SearchCallImmediate(context, s) ==
    IF s > Len(context) THEN NoMatch
    ELSE IF At(context, s) \in WordStartTokens
            /\ At(context, SkipWord(context, s + 1)) = "("
         THEN Matched(SubSeq(context, s, SkipWord(context, s + 1) - 1))
    ELSE SearchCallImmediate(context, s + 1)

\* re.search(r'([A-Za-z_$][\w$]*)\s*\(', context): the leftmost match
RECURSIVE SearchCall(_, _)
SearchCall(context, s) ==
    IF s > Len(context) THEN NoMatch
    ELSE IF IdentThen(context, s, {"("}).ok THEN IdentThen(context, s, {"("})
    ELSE SearchCall(context, s + 1)

\* the symbols a hunk-header line contributes
HunkSymbols(file, line) ==
    LET c == FindClosing(line, 2)
    IN IF c = 0 THEN <<>>
       ELSE LET context == Strip(SubSeq(line, SkipSpaces(line, c + 1), Len(line)))
                m == SearchCall(context, 1)
            IN IF context # <<>> /\ m.ok
               THEN <<ModifiedSymbol(m.name, "unknown", "modified", file)>>
               ELSE <<>>

\* a faulty variant of DeclSymbols: the loop goes on after a match
RECURSIVE DeclSymbolsNoBreak(_, _, _, _)
DeclSymbolsNoBreak(language, file, line, k) ==
    IF k > Len(lang_patterns(language)) THEN <<>>
    ELSE LET key == lang_patterns(language)[k]
             m == PatternMatch(language, key, line)
         IN (IF m.ok /\ m.name # <<>>
             THEN <<ModifiedSymbol(m.name, KindOf(key), ChangeType(line), file)>>
             ELSE <<>>)
            \o DeclSymbolsNoBreak(language, file, line, k + 1)

\* the loop over lang_patterns.items(): the first pattern that matches
\* decides, and the loop breaks
RECURSIVE DeclSymbols(_, _, _, _)
DeclSymbols(language, file, line, k) ==
    IF k > Len(lang_patterns(language)) THEN <<>>
    ELSE LET key == lang_patterns(language)[k]
             m == PatternMatch(language, key, line)
         IN IF m.ok
            THEN IF m.name # <<>>
                 THEN <<ModifiedSymbol(m.name, KindOf(key), ChangeType(line), file)>>
                 ELSE <<>>
            ELSE DeclSymbols(language, file, line, k + 1)

\* a faulty variant of LineSymbols: a language without a table is given the
\* python table
LineSymbolsDefaultPython(language, file, line) ==
    IF StartsWith(line, <<"@@">>) THEN HunkSymbols(file, line)
    ELSE DeclSymbols(IF lang_patterns(language) = <<>> THEN "python" ELSE language,
                     file, line, 1)

\* the body of the loop over patch.splitlines() for one line
LineSymbols(language, file, line) ==
    IF StartsWith(line, <<"@@">>) THEN HunkSymbols(file, line)
    ELSE DeclSymbols(language, file, line, 1)

\* the list symbols after the loop over the lines
RECURSIVE RawSymbols(_, _, _)
RawSymbols(language, file, lines) ==
    IF lines = <<>> THEN <<>>
    ELSE LineSymbols(language, file, Head(lines))
         \o RawSymbols(language, file, Tail(lines))

\* unique[key] = s on a dict kept as the sequence of its values in insertion
\* order; the key of a symbol is (file, name, kind, change_type)
SameKey(a, b) ==
    a.file = b.file /\ a.name = b.name /\ a.kind = b.kind
    /\ a.change_type = b.change_type

DictSet(unique, sym) ==
    IF \E i \in 1..Len(unique) : SameKey(unique[i], sym)
    THEN [i \in 1..Len(unique) |->
            IF SameKey(unique[i], sym) THEN sym ELSE unique[i]]
    ELSE Append(unique, sym)

RECURSIVE DedupeInto(_, _)
DedupeInto(unique, syms) ==
    IF syms = <<>> THEN unique
    ELSE DedupeInto(DictSet(unique, Head(syms)), Tail(syms))

\* a faulty variant of Dedupe: the list is returned as collected
DedupeNothing(syms) == syms

\* list(unique.values())
Dedupe(syms) == DedupeInto(<<>>, syms)

\* a patch is absent (None) or a text, the sequence of its lines
NonePatch == [present |-> FALSE, lines |-> <<>>]
TextPatch(lines) == [present |-> TRUE, lines |-> lines]

\* a faulty variant of EarlyReturn: only the empty string returns early
EarlyReturnEmptyOnly(p) == p.present /\ p.lines = <<>>

\* if not patch: return []
EarlyReturn(p) == ~p.present \/ p.lines = <<>>

\* patch.splitlines() raises on None
SplitLinesRaises(p) == ~p.present

_parse_symbols_from_patch(file, p) ==
    IF EarlyReturn(p) THEN <<>>
    ELSE Dedupe(RawSymbols(_infer_language_from_filename(file), file, p.lines))

\* The inputs of the extractor: filenames, and lines made of a prefix and
\* a body.
FileNames ==
    { <<"a", ".py">>, <<"B", ".PY">>, <<"m", ".go">>, <<"J", ".java">>,
      <<"s", ".css">>, <<"i", ".html">>, <<"README">> }

LinePrefixes ==
    { <<>>, <<"+">>, <<"-">>, <<"+", "+", "+">>, <<"-", "-", "-">>,
      <<"@@", " ", "1", " ", "@@", " ">>, <<"@@", " ">> }

LineBodies ==
    { <<>>,
      <<"def", " ", "x", "(", ")", ":">>,
      <<"class", " ", "x", ":">>,
      <<"struct", " ", "x">>,
      <<"x", " ", "(">>,
      <<"func", " ", "(", "x", ")", " ", "y", "(">> }

Lines == { pre \o body : pre \in LinePrefixes, body \in LineBodies }

Patches ==
    {NonePatch} \cup { TextPatch(ls) : ls \in UNION { [1..n -> Lines] : n \in 0..MaxLines } }

LoopIdle ==
    /\ surface = "chat"
    /\ pc = "idle"
    /\ iteration = 0
    /\ messages = InitialMessages
    /\ batch = <<>>
    /\ idx = 0
    /\ result = <<>>
    /\ completes = 0
    /\ status_updates = 0
    /\ model_calls = 0
    /\ tool_runs = <<>>
    /\ raised = "none"
    /\ varied = 0

ExtractInit ==
    /\ LoopIdle
    /\ ToolsIdle
    /\ OthersIdle
    /\ filename \in FileNames
    /\ patch \in Patches
    /\ symbols = <<>>
    /\ language_tag = ""
    /\ change_types = <<>>
    /\ xraised = FALSE
    /\ xpc = "ready"

\* the call _parse_symbols_from_patch(filename, patch) returns
Extract ==
    /\ xpc = "ready"
    /\ xraised' = (~EarlyReturn(patch) /\ SplitLinesRaises(patch))
    /\ symbols' = (IF xraised' THEN <<>>
                   ELSE _parse_symbols_from_patch(filename, patch))
    /\ language_tag' = (IF EarlyReturn(patch) THEN language_tag
                    ELSE _infer_language_from_filename(filename))
    /\ change_types' = (IF EarlyReturn(patch) \/ xraised' THEN <<>>
                        ELSE [i \in 1..Len(patch.lines) |-> ChangeType(patch.lines[i])])
    /\ xpc' = "returned"
    /\ UNCHANGED <<filename, patch>>
    /\ UNCHANGED besidesExtract

ExtractNext == Extract

SpecExtract == ExtractInit /\ [][ExtractNext]_vars

----------------------------------------------------------------------------
(* Properties of the symbol extractor *)

\* the list collected before de-duplication, for the inputs of the state
Collected ==
    IF ~patch.present THEN <<>>
    ELSE RawSymbols(_infer_language_from_filename(filename), filename, patch.lines)

Range(f) == {f[i] : i \in DOMAIN f}

\* C9: the list returned holds at most one record per identity
\* (file, name, kind, change_type), and every identity collected from the
\* patch survives, with the record written for it.
C9_OneRecordPerIdentity ==
    xpc = "returned" =>
        /\ \A i, j \in 1..Len(symbols) :
              SameKey(symbols[i], symbols[j]) => i = j
        /\ Range(symbols) = Range(Collected)
        /\ Len(symbols) = Cardinality(Range(Collected))

\* two lines of the patch collected the same identity
C9_Witness ==
    /\ xpc = "returned"
    /\ Len(Collected) = 2
    /\ Len(symbols) = 1
    /\ symbols[1].kind = "function"
    /\ symbols[1].change_type = "added"

\* C10: every symbol returned has a non-empty name, a kind and a change type
\* of the enumerations, and the filename passed in as its file.
C10_SymbolWellFormed ==
    \A i \in 1..Len(symbols) :
        /\ symbols[i].name # <<>>
        /\ symbols[i].kind \in {"function", "class", "method", "unknown"}
        /\ symbols[i].change_type \in {"added", "removed", "modified"}
        /\ symbols[i].file = filename

C10_Witness ==
    /\ xpc = "returned"
    /\ Len(symbols) = 2
    /\ {symbols[1].kind, symbols[2].kind} = {"unknown", "class"}
    /\ {symbols[1].change_type, symbols[2].change_type} = {"modified", "removed"}

\* the positions of the language's table whose pattern matches the line
MatchingKeys(lang, line) ==
    {k \in 1..Len(lang_patterns(lang)) :
        PatternMatch(lang, lang_patterns(lang)[k], line).ok}

\* the least element of a non-empty set of positions
Least(S) == CHOOSE k \in S : \A j \in S : k <= j

\* what one line may contribute: a hunk-header line its recovered symbol, any
\* other line the symbol of the first pattern of the table that matches it
ExpectedOfLine(lang, file, line) ==
    IF StartsWith(line, <<"@@">>) THEN Range(HunkSymbols(file, line))
    ELSE IF MatchingKeys(lang, line) = {} THEN {}
    ELSE LET key == lang_patterns(lang)[Least(MatchingKeys(lang, line))]
             m == PatternMatch(lang, key, line)
         IN IF m.name = <<>> THEN {}
            ELSE {[name |-> m.name,
                   kind |-> (CASE key = "class" -> "class"
                               [] key = "method" -> "method"
                               [] OTHER -> "function"),
                   change_type |-> ChangeType(line),
                   file |-> file]}

\* C11: the patterns of a language are tried in the order of its table and
\* the first that matches a line decides: the line yields at most one
\* declaration symbol, named by the first non-empty group, of kind class or
\* method for those keys and function for every other; a line no pattern
\* matches yields nothing.
C11_FirstMatchDecides ==
    (xpc = "returned" /\ patch.present /\ ~xraised) =>
        /\ Range(symbols) =
              UNION {ExpectedOfLine(_infer_language_from_filename(filename),
                                    filename, patch.lines[i]) :
                        i \in 1..Len(patch.lines)}
        /\ \A i \in 1..Len(patch.lines) :
              Cardinality(ExpectedOfLine(_infer_language_from_filename(filename),
                                         filename, patch.lines[i])) <= 1

\* a python line that both the func and the method pattern match yielded
\* the one symbol of the func pattern
C11_Witness ==
    /\ xpc = "returned"
    /\ filename = <<"a", ".py">>
    /\ patch.present /\ Len(patch.lines) = 1
    /\ Cardinality(MatchingKeys("python", patch.lines[1])) = 2
    /\ Len(symbols) = 1
    /\ symbols[1].kind = "function"

\* the text of a hunk-header line after its closing marker, stripped; empty
\* when the line has no closing marker
TrailingText(line) ==
    IF FindClosing(line, 2) = 0 THEN <<>>
    ELSE Strip(SubSeq(line, FindClosing(line, 2) + 1, Len(line)))

\* the positions of a text where an identifier starts that is followed by an
\* opening parenthesis: after optional spaces when spaced, directly otherwise
CallStarts(text, spaced) ==
    {s \in 1..Len(text) :
        /\ text[s] \in WordStartTokens
        /\ At(text, IF spaced THEN SkipSpaces(text, SkipWord(text, s + 1))
                    ELSE SkipWord(text, s + 1)) = "("}

IdentifierAt(text, s) == SubSeq(text, s, SkipWord(text, s + 1) - 1)

\* the symbols of kind unknown the header lines of the patch call for
HeaderSymbols(spaced) ==
    {[name |-> IdentifierAt(TrailingText(patch.lines[i]),
                            Least(CallStarts(TrailingText(patch.lines[i]), spaced))),
      kind |-> "unknown", change_type |-> "modified", file |-> filename] :
        i \in {j \in 1..Len(patch.lines) :
                  /\ StartsWith(patch.lines[j], <<"@@">>)
                  /\ CallStarts(TrailingText(patch.lines[j]), spaced) # {}}}

UnknownSymbols == {s \in Range(symbols) : s.kind = "unknown"}

\* C12 as stated: a hunk-header line yields one symbol (identifier, unknown,
\* modified) exactly when its trailing text holds an identifier immediately
\* followed by an opening parenthesis, whatever the language.
C12_ImmediateCallRecovered ==
    (xpc = "returned" /\ patch.present) =>
        UnknownSymbols = HeaderSymbols(FALSE)

\* C12: a hunk-header line yields one symbol (identifier, unknown, modified)
\* exactly when its trailing text holds an identifier followed, after
\* optional white space, by an opening parenthesis; the identifier is that
\* of the leftmost such place, whatever the language.
C12_LeftmostCallRecovered ==
    (xpc = "returned" /\ patch.present) =>
        UnknownSymbols = HeaderSymbols(TRUE)

\* a header whose identifier is separated from the parenthesis by a space
\* yielded its symbol, in a file without a pattern table
C12_Witness ==
    /\ xpc = "returned"
    /\ filename = <<"README">>
    /\ patch.present /\ Len(patch.lines) = 1
    /\ TrailingText(patch.lines[1]) = <<"x", " ", "(">>
    /\ Len(symbols) = 1
    /\ symbols[1].name = <<"x">>

\* a file-header line: it begins with +++ or ---
IsFileHeader(line) ==
    StartsWith(line, <<"+", "+", "+">>) \/ StartsWith(line, <<"-", "-", "-">>)

\* C13: a line that begins with +++ or --- is left out of the add/remove
\* classification: it is classified modified, and every symbol returned as
\* added or removed is the symbol of a line that is not a file header.
C13_FileHeadersNotAddedRemoved ==
    (xpc = "returned" /\ patch.present) =>
        /\ \A i \in 1..Len(patch.lines) :
              IsFileHeader(patch.lines[i]) => change_types[i] = "modified"
        /\ \A k \in 1..Len(symbols) :
              symbols[k].change_type \in {"added", "removed"} =>
                  \E i \in 1..Len(patch.lines) :
                      /\ ~IsFileHeader(patch.lines[i])
                      /\ change_types[i] = symbols[k].change_type
                      /\ symbols[k] \in ExpectedOfLine(
                             _infer_language_from_filename(filename),
                             filename, patch.lines[i])

\* a +++ line that carries a declaration, followed by an added declaration
C13_Witness ==
    /\ xpc = "returned"
    /\ filename = <<"a", ".py">>
    /\ patch.present /\ Len(patch.lines) = 2
    /\ patch.lines[1] = <<"+", "+", "+", "def", " ", "x", "(", ")", ":">>
    /\ change_types = <<"modified", "added">>
    /\ Len(symbols) = 1
    /\ symbols[1].change_type = "added"

\* C14: for a file classified css, html or unknown no declaration yields a
\* symbol, whatever the patch holds: every symbol returned is of kind
\* unknown and is the symbol recovered from a hunk-header line of the patch.
C14_NoTableNoDeclarations ==
    (xpc = "returned" /\ patch.present
       /\ _infer_language_from_filename(filename) \in {"css", "html", "unknown"}) =>
        \A k \in 1..Len(symbols) :
            /\ symbols[k].kind = "unknown"
            /\ \E i \in 1..Len(patch.lines) :
                  /\ StartsWith(patch.lines[i], <<"@@">>)
                  /\ symbols[k] \in Range(HunkSymbols(filename, patch.lines[i]))

\* a css file whose patch holds an added declaration and a hunk header with
\* a call in its trailing text: only the header yielded a symbol
C14_Witness ==
    /\ xpc = "returned"
    /\ language_tag = "css"
    /\ patch.present /\ Len(patch.lines) = 2
    /\ patch.lines[1] = <<"+", "def", " ", "x", "(", ")", ":">>
    /\ StartsWith(patch.lines[2], <<"@@">>)
    /\ Len(symbols) = 1
    /\ symbols[1].kind = "unknown"

\* the line SIGN def NAME ( ... of a python patch
IsSignedDef(line, sign) ==
    /\ Len(line) >= 5
    /\ line[1] = sign /\ line[2] = "def" /\ line[3] = " "
    /\ line[4] \in WordStartTokens /\ line[5] = "("

\* the python files of the inputs
PythonFiles == {f \in FileNames : _infer_language_from_filename(f) = "python"}

\* C15: in a python file a line '+def NAME(' yields (NAME, function, added,
\* file) and a line '-def NAME(' yields (NAME, function, removed, file); the
\* name added in this file and removed in another python file yields two
\* distinct symbols, each with its own file and change type.
C15_PythonDefAddedRemoved ==
    (xpc = "returned" /\ patch.present /\ filename \in PythonFiles) =>
        \A i \in 1..Len(patch.lines) :
            /\ IsSignedDef(patch.lines[i], "+") =>
                  /\ [name |-> <<patch.lines[i][4]>>, kind |-> "function",
                      change_type |-> "added", file |-> filename] \in Range(symbols)
                  /\ \A g \in PythonFiles \ {filename} :
                        LET removal == <<"-">> \o Tail(patch.lines[i])
                            other == _parse_symbols_from_patch(g, TextPatch(<<removal>>))
                        IN /\ other = <<[name |-> <<patch.lines[i][4]>>,
                                         kind |-> "function",
                                         change_type |-> "removed", file |-> g]>>
                           /\ other[1] \notin Range(symbols)
            /\ IsSignedDef(patch.lines[i], "-") =>
                  [name |-> <<patch.lines[i][4]>>, kind |-> "function",
                   change_type |-> "removed", file |-> filename] \in Range(symbols)

\* a python patch that adds and removes def x: two symbols of this file
C15_Witness ==
    /\ xpc = "returned"
    /\ filename = <<"B", ".PY">>
    /\ patch.present /\ Len(patch.lines) = 2
    /\ IsSignedDef(patch.lines[1], "+")
    /\ IsSignedDef(patch.lines[2], "-")
    /\ Len(symbols) = 2
    /\ symbols[1].change_type = "added"
    /\ symbols[2].change_type = "removed"

\* a line that starts with the hunk marker and has no closing marker
IsUnclosedHeader(line) ==
    StartsWith(line, <<"@@">>) /\ FindClosing(line, 2) = 0

\* C16: with the patch absent or empty the extraction returns the empty
\* list, for every filename; and no text makes it raise: a hunk marker
\* without its closing marker only yields nothing of its own, the symbols
\* returned being those of the other lines.
C16_AbsentOrMalformedPatch ==
    xpc = "returned" =>
        /\ ~xraised
        /\ (~patch.present \/ patch.lines = <<>>) => symbols = <<>>
        /\ patch.present =>
              Range(symbols) =
                  UNION {ExpectedOfLine(_infer_language_from_filename(filename),
                                        filename, patch.lines[i]) :
                            i \in {j \in 1..Len(patch.lines) :
                                      ~IsUnclosedHeader(patch.lines[j])}}

\* an unclosed hunk marker that carries a call, next to an added declaration
C16_Witness ==
    /\ xpc = "returned"
    /\ ~xraised
    /\ patch.present /\ Len(patch.lines) = 2
    /\ patch.lines[1] = <<"@@", " ", "def", " ", "x", "(", ")", ":">>
    /\ IsSignedDef(patch.lines[2], "+")
    /\ Len(symbols) = IF filename \in PythonFiles THEN 1 ELSE 0

----------------------------------------------------------------------------
(* The language classifier on its own: _infer_language_from_filename on
   names of every recognised extension, in lower, upper and mixed case, and
   on names without a recognised extension *)

RecognisedExtensions ==
    { ".py", ".ts", ".tsx", ".js", ".jsx", ".java", ".go", ".cls", ".trigger",
      ".apex", ".css", ".html", ".htm", ".c", ".cpp", ".cc", ".cxx", ".hpp",
      ".hh", ".hxx", ".cs", ".h" }

UpperExtensions ==
    { ".PY", ".TS", ".TSX", ".JS", ".JSX", ".JAVA", ".GO", ".CLS", ".TRIGGER",
      ".APEX", ".CSS", ".HTML", ".HTM", ".C", ".CPP", ".CC", ".CXX", ".HPP",
      ".HH", ".HXX", ".CS", ".H" }

\* the last token of a name: an extension in some case, one that is not
\* recognised, or none
LastTokens == RecognisedExtensions \cup UpperExtensions \cup {".Py", ".txt", ".TXT"}

Stems == { <<>>, <<"foo">>, <<"FOO">>, <<"Foo">>, <<"foo", ".py">> }

ClassifyNames ==
    { stem \o <<ext>> : stem \in Stems, ext \in LastTokens } \cup (Stems \ {<<>>})

LanguageTags ==
    { "python", "javascript", "typescript", "java", "go", "apex", "css", "html",
      "c", "cpp", "csharp" }

ClassifyInit ==
    /\ LoopIdle
    /\ ToolsIdle
    /\ OthersIdle
    /\ filename \in ClassifyNames
    /\ patch = <<>>
    /\ symbols = <<>>
    /\ language_tag = ""
    /\ change_types = <<>>
    /\ xraised = FALSE
    /\ xpc = "ready"

Classify ==
    /\ xpc = "ready"
    /\ language_tag' = _infer_language_from_filename(filename)
    /\ xpc' = "classified"
    /\ UNCHANGED <<besidesExtract, filename, patch, symbols, change_types, xraised>>

ClassifyNext == Classify

SpecClassify == ClassifyInit /\ [][ClassifyNext]_vars

\* filename.lower()
LowerName(name) == [i \in 1..Len(name) |-> Lower(name[i])]

\* C17: the classification always returns, and returns a tag that depends
\* only on the name with its letters in lower case: a recognised extension
\* gives one of the eleven language tags, Foo.PY gives python, and every
\* other name gives unknown.
C17_ClassificationCaseInsensitive ==
    xpc = "classified" =>
        /\ language_tag \in LanguageTags \cup {"unknown"}
        /\ \A g \in ClassifyNames :
              LowerName(g) = LowerName(filename) =>
                  _infer_language_from_filename(g) = language_tag
        /\ (LowerName(filename)[Len(filename)] \in RecognisedExtensions)
              <=> (language_tag \in LanguageTags)
        /\ filename = <<"Foo", ".PY">> => language_tag = "python"

\* Foo.PY was classified python
C17_Witness ==
    /\ xpc = "classified"
    /\ filename = <<"Foo", ".PY">>
    /\ language_tag = "python"

----------------------------------------------------------------------------
(* The GitHub toolset: the four public operations of GitHubToolset against
   the GitHub collaborator. A value that may be None is a sequence of at
   most one element. *)

MaxFiles == 2      \* files of one commit
MaxCommits == 3    \* commits the repository holds
MaxRepos == 2      \* repositories the user holds

None == <<>>
Some(v) == <<v>>

\* the files the collaborator may report for a commit: name, patch and the
\* three counters, any of which may be missing
FilePool ==
    << [filename |-> <<"a", ".py">>, status |-> Some("modified"),
        patch |-> TextPatch(<< <<"+", "def", " ", "x", "(", ")", ":">> >>),
        additions |-> Some(3), deletions |-> Some(1), changes |-> Some(4)],
       [filename |-> <<"m", ".go">>, status |-> Some("added"),
        patch |-> NonePatch,
        additions |-> Some(5), deletions |-> Some(0), changes |-> Some(5)],
       [filename |-> <<"s", ".css">>, status |-> None,
        patch |-> TextPatch(<< <<"@@", " ", "1", " ", "@@", " ", "x", " ", "(">> >>),
        additions |-> None, deletions |-> None, changes |-> None] >>

\* commit.files of a commit of the collaborator: size files of the pool,
\* from position start on
CommitFiles(c) ==
    [k \in 1..c.size |-> FilePool[((c.start + k - 2) % Len(FilePool)) + 1]]

CommitKinds ==
    {[start |-> 1, size |-> 0]} \cup
    [start : 1..Len(FilePool), size : 1..MaxFiles]

\* what the collaborator does: fault tells which call raises ("none": no
\* call does), commits is repo.get_commits(), authorless the position of
\* the commit whose commit.author is None (0: every commit has an author),
\* repos is user.get_repos(sort='updated', direction='desc'), each
\* repository given by the days since its last update
Faults == {"none", "auth", "not_found", "network"}

CommitLists == UNION {[1..n -> CommitKinds] : n \in 0..MaxCommits}

\* the defaults the documentation of get_user_repositories states
DocumentedReposDays == 30
DocumentedReposLimit == 10

\* the days since a repository was updated: within every window, between
\* the window of the code and the documented one, and beyond both
RepoAges == {1, DocumentedReposDays - 1, DocumentedReposDays + 10}

\* one repository more than the documented limit, all updated a day ago
ManyRepos == [i \in 1..(DocumentedReposLimit + 1) |-> 1]

\* the lists the collaborator returns, most recently updated first
RepoLists ==
    {l \in UNION {[1..n -> RepoAges] : n \in 0..MaxRepos} :
        \A i \in 1..(Len(l) - 1) : l[i] <= l[i + 1]} \cup {ManyRepos}

Worlds(commitLists, repoLists) ==
    {w \in [fault : Faults, commits : commitLists,
            authorless : 0..MaxCommits, repos : repoLists] :
        /\ w.authorless \in {0, Len(w.commits)}
        /\ w.fault # "none" =>
              (Len(w.commits) <= 1 /\ w.authorless = 0 /\ Len(w.repos) <= 1)}

\* the exception a collaborator call raises
ExceptionOf(fault) ==
    CASE fault = "auth" -> "BadCredentialsException"
      [] fault = "not_found" -> "UnknownObjectException"
      [] fault = "network" -> "ConnectionError"

\* a faulty variant of Caught: only the collaborator's own exceptions
CaughtGithubOnly(exc) ==
    exc \in {"BadCredentialsException", "UnknownObjectException"}

\* except Exception: every exception class of the operations derives from
\* Exception
Caught(exc) ==
    exc \in {"BadCredentialsException", "UnknownObjectException",
             "ConnectionError", "ValidationError", "AttributeError"}

\* the outcome of the body of a try block
Raise(exc) == [raised |-> exc, value |-> <<>>]
Return(v) == [raised |-> "", value |-> v]

\* a faulty variant of Take: the whole sequence
TakeAll(seq, n) == seq

\* seq[:n]
Take(seq, n) == SubSeq(seq, 1, IF n < Len(seq) THEN n ELSE Len(seq))

\* GitHubCommit(sha=..., author=...): the position of the commit stands for
\* its sha, message, date and url
GitHubCommit(sha) == [sha |-> sha, author |-> "author"]

\* DiffFileChange(...) for a file f of the collaborator
DiffFileChange(f) ==
    [filename |-> f.filename, status |-> f.status,
     additions |-> f.additions, deletions |-> f.deletions, changes |-> f.changes,
     patch |-> f.patch,
     modified_symbols |-> _parse_symbols_from_patch(f.filename, f.patch)]

\* getattr(f, field, 0) or 0
OrZero(o) == IF o = None THEN 0 ELSE o[1]

\* a faulty variant of Total: the total is assigned, not added to
TotalOfLast(files, field) ==
    IF files = <<>> THEN 0 ELSE OrZero(files[Len(files)][field])

\* total_additions, total_deletions, total_changes after the loop over
\* commit.files
RECURSIVE Total(_, _)
Total(files, field) ==
    IF files = <<>> THEN 0
    ELSE Total(SubSeq(files, 1, Len(files) - 1), field)
         + OrZero(files[Len(files)][field])

\* CommitSummary(...)
CommitSummary(fs) ==
    [files_changed |-> Len(fs),
     total_additions |-> Total(fs, "additions"),
     total_deletions |-> Total(fs, "deletions"),
     total_changes |-> Total(fs, "changes")]

\* CommitWithFiles(commit=commit_model, files=files, summary=summary)
CommitWithFiles(sha, c) ==
    [commit |-> GitHubCommit(sha),
     files |-> [k \in 1..c.size |-> DiffFileChange(CommitFiles(c)[k])],
     summary |-> CommitSummary(CommitFiles(c))]

\* the try block of get_latest_commit_with_diff
LatestBody(w, limit) ==
    IF w.fault # "none" THEN Raise(ExceptionOf(w.fault))
    ELSE IF w.authorless \in 1..Len(Take(w.commits, limit))
    THEN Raise("ValidationError")
    ELSE Return([i \in 1..Len(Take(w.commits, limit)) |->
                    CommitWithFiles(i, w.commits[i])])

\* the try block of get_commit_diff
DiffBody(w, sha) ==
    IF w.fault # "none" THEN Raise(ExceptionOf(w.fault))
    ELSE IF sha \notin 1..Len(w.commits) THEN Raise("UnknownObjectException")
    ELSE IF w.authorless = sha THEN Raise("AttributeError")
    ELSE Return(<<CommitWithFiles(sha, w.commits[sha])>>)

\* the try block of get_recent_commits: the loop stops at limit commits
RecentBody(w, limit) ==
    IF w.fault # "none" THEN Raise(ExceptionOf(w.fault))
    ELSE IF w.authorless \in 1..Len(Take(w.commits, limit))
    THEN Raise("AttributeError")
    ELSE Return([i \in 1..Len(Take(w.commits, limit)) |-> GitHubCommit(i)])

\* the repositories updated since the cutoff date, by position:
\* repo_updated_at >= cutoff_date, the cutoff being days days ago
RECURSIVE RecentRepos(_, _, _)
RecentRepos(repos, days, i) ==
    IF i > Len(repos) THEN <<>>
    ELSE (IF repos[i] <= days THEN <<[name |-> i]>> ELSE <<>>)
             \o RecentRepos(repos, days, i + 1)

\* the try block of get_user_repositories, called without username: the
\* loop stops at limit repositories; github.get_repo is not called
ReposBody(w, days, limit) ==
    IF w.fault \in {"auth", "network"} THEN Raise(ExceptionOf(w.fault))
    ELSE Return(Take(RecentRepos(w.repos, days, 1), limit))

\* the defaults the operations give to a limit that is None
LatestDefaultLimit == 2
ReposDefaultLimit == 15
ReposDefaultDays == 28
RecentDefaultLimit == 30

OrDefault(o, default) == IF o = None THEN default ELSE o[1]

\* CommitDiffResponse(status='success', ...) and
\* CommitDiffResponse(status='error', ...): commits is not passed on
\* error and takes its default, the empty list
CommitDiffSuccess(items) ==
    [status |-> "success",
     message |-> <<"Successfully retrieved", ToString(Len(items)), "commits">>,
     count |-> Some(Len(items)), error_message |-> None, commits |-> items]

CommitDiffError(text, exc) ==
    [status |-> "error", message |-> <<text, exc>>,
     count |-> None, error_message |-> Some(<<text, exc>>), commits |-> <<>>]

\* a faulty variant of DataError: error_message is not passed
DataErrorNoErrorMessage(text, exc) ==
    [status |-> "error", message |-> <<text, exc>>,
     count |-> None, error_message |-> None, data |-> None]

\* RepositoryResponse and CommitResponse: data is not passed on error and
\* takes its default, None
DataSuccess(what, items) ==
    [status |-> "success",
     message |-> <<"Successfully retrieved", ToString(Len(items)), what>>,
     count |-> Some(Len(items)), error_message |-> None, data |-> Some(items)]

\* the success response of get_user_repositories: its message tells the days
ReposSuccess(items, days) ==
    [DataSuccess("repositories", items) EXCEPT
        !.message = <<"Successfully retrieved", ToString(Len(items)),
                      "repositories updated in the last", ToString(days), "days">>]

DataError(text, exc) ==
    [status |-> "error", message |-> <<text, exc>>,
     count |-> None, error_message |-> Some(<<text, exc>>), data |-> None]

\* try: ... return ok / except Exception as e: return failed
TryExcept(out, ok, failed) ==
    IF out.raised = "" THEN response' = ok /\ tpc' = "returned"
    ELSE IF Caught(out.raised) THEN response' = failed /\ tpc' = "returned"
    ELSE response' = response /\ tpc' = "propagated"

get_latest_commit_with_diff ==
    /\ tpc = "called"
    /\ op = "get_latest_commit_with_diff"
    /\ LET out == LatestBody(world, OrDefault(args.limit, LatestDefaultLimit))
       IN TryExcept(out, CommitDiffSuccess(out.value),
                    CommitDiffError("Failed to get latest commits diff", out.raised))
    /\ UNCHANGED <<besidesTools, op, args, world>>

get_commit_diff ==
    /\ tpc = "called"
    /\ op = "get_commit_diff"
    /\ LET out == DiffBody(world, args.sha)
       IN TryExcept(out, CommitDiffSuccess(out.value),
                    CommitDiffError("Failed to get commit diff", out.raised))
    /\ UNCHANGED <<besidesTools, op, args, world>>

get_user_repositories ==
    /\ tpc = "called"
    /\ op = "get_user_repositories"
    /\ LET days == OrDefault(args.days, ReposDefaultDays)
           out == ReposBody(world, days, OrDefault(args.limit, ReposDefaultLimit))
       IN TryExcept(out, ReposSuccess(out.value, days),
                    DataError("Failed to get repositories", out.raised))
    /\ UNCHANGED <<besidesTools, op, args, world>>

get_recent_commits ==
    /\ tpc = "called"
    /\ op = "get_recent_commits"
    /\ LET out == RecentBody(world, OrDefault(args.limit, RecentDefaultLimit))
       IN TryExcept(out, DataSuccess("commits", out.value),
                    DataError("Failed to get commits", out.raised))
    /\ UNCHANGED <<besidesTools, op, args, world>>

\* the days a caller of get_user_repositories passes
Days == {None, Some(DocumentedReposDays)}

\* the limits a caller passes
Limits == {None} \cup {Some(n) : n \in 0..MaxCommits}

\* commits whose files are not looked at
BareCommitLists == UNION {[1..n -> {[start |-> 1, size |-> 0]}] : n \in 0..MaxCommits}

ToolsInit ==
    /\ LoopIdle
    /\ ExtractIdle
    /\ OthersIdle
    /\ response = <<>>
    /\ tpc = "called"
    /\ \/ /\ op = "get_latest_commit_with_diff"
          /\ args \in [limit : Limits, sha : {0}, days : {None}]
          /\ world \in Worlds(CommitLists, {<<>>})
       \/ /\ op = "get_commit_diff"
          /\ args \in [limit : {None}, sha : 1..MaxCommits, days : {None}]
          /\ world \in Worlds(CommitLists, {<<>>})
       \/ /\ op = "get_user_repositories"
          /\ args \in [limit : Limits \cup {Some(DocumentedReposLimit)}, sha : {0},
                        days : Days]
          /\ world \in Worlds({<<>>}, RepoLists)
       \/ /\ op = "get_recent_commits"
          /\ args \in [limit : Limits, sha : {0}, days : {None}]
          /\ world \in Worlds(BareCommitLists, {<<>>})

ToolsNext ==
    \/ get_latest_commit_with_diff
    \/ get_commit_diff
    \/ get_user_repositories
    \/ get_recent_commits

SpecTools == ToolsInit /\ [][ToolsNext]_vars

----------------------------------------------------------------------------
(* Properties of the toolset operations *)

DiffOperations == {"get_latest_commit_with_diff", "get_commit_diff"}

\* the sum of a counter over the files of a commit of the response, a
\* missing value counted as zero
RECURSIVE FieldSum(_, _)
FieldSum(fs, field) ==
    IF fs = <<>> THEN 0
    ELSE (IF Head(fs)[field] = None THEN 0 ELSE Head(fs)[field][1])
         + FieldSum(Tail(fs), field)

\* C18: in every commit returned by get_latest_commit_with_diff and
\* get_commit_diff, summary.files_changed is the number of files and the
\* three totals are the sums of the files' additions, deletions and
\* changes, a missing value counted as zero; with no file all are zero.
C18_SummaryTotals ==
    (tpc = "returned" /\ op \in DiffOperations) =>
        \A i \in 1..Len(response.commits) :
            LET c == response.commits[i]
            IN /\ c.summary.files_changed = Len(c.files)
               /\ c.summary.total_additions = FieldSum(c.files, "additions")
               /\ c.summary.total_deletions = FieldSum(c.files, "deletions")
               /\ c.summary.total_changes = FieldSum(c.files, "changes")
               /\ c.files = <<>> =>
                     c.summary = [files_changed |-> 0, total_additions |-> 0,
                                  total_deletions |-> 0, total_changes |-> 0]

\* two commits returned: one of two files, one of which has no counters,
\* and one without files
C18_Witness ==
    /\ tpc = "returned"
    /\ op = "get_latest_commit_with_diff"
    /\ Len(response.commits) = 2
    /\ Len(response.commits[1].files) = 2
    /\ response.commits[1].files[2].additions = None
    /\ response.commits[1].summary.total_additions = 5
    /\ response.commits[2].files = <<>>
    /\ response.commits[2].summary.total_changes = 0

\* the call of the try block that raises, for the inputs of the state
BodyFails ==
    \/ world.fault # "none"
    \/ op = "get_commit_diff" /\ args.sha > Len(world.commits)
    \/ op = "get_commit_diff" /\ world.authorless = args.sha
    \/ /\ op = "get_latest_commit_with_diff"
       /\ world.authorless >= 1
       /\ world.authorless <= OrDefault(args.limit, LatestDefaultLimit)

\* C19: an exception raised while get_latest_commit_with_diff or
\* get_commit_diff fetches from the collaborator or aggregates is caught:
\* the operation returns, with status error and a populated error_message,
\* and nothing propagates to the caller.
C19_ExceptionsBecomeErrorResponses ==
    (op \in DiffOperations /\ tpc # "called") =>
        /\ tpc = "returned"
        /\ BodyFails =>
              /\ response.status = "error"
              /\ response.error_message # None
              /\ response.error_message[1] # <<>>

\* the collaborator failed with a network error and the caller got an error
\* response
C19_Witness ==
    /\ op = "get_latest_commit_with_diff"
    /\ tpc = "returned"
    /\ world.fault = "network"
    /\ response.status = "error"
    /\ response.error_message =
          Some(<<"Failed to get latest commits diff", "ConnectionError">>)

\* the response has a payload: the list commits, or a data that is not None
PayloadPresent == ("commits" \in DOMAIN response) \/ response.data # None

\* the items of the payload
PayloadItems ==
    IF "commits" \in DOMAIN response THEN response.commits
    ELSE IF response.data = None THEN <<>> ELSE response.data[1]

ResponseBasics ==
    /\ response.status \in {"success", "error"}
    /\ response.message # <<>>
    /\ (response.error_message # None) <=> (response.status = "error")
    /\ response.status = "success" => response.count = Some(Len(PayloadItems))

C21_LimitAndSingleCommit ==
    (tpc = "returned" /\ response.status = "success") =>
        /\ op = "get_latest_commit_with_diff" =>
              /\ args.limit # None => Len(response.commits) <= args.limit[1]
              /\ args.limit = None => Len(response.commits) <= 2
              /\ Len(response.commits) <= Len(world.commits)
              /\ \A i \in 1..Len(response.commits) :
                    response.commits[i].commit.sha = i
              /\ response.count = Some(Len(response.commits))
        /\ op = "get_commit_diff" =>
              /\ Len(response.commits) = 1
              /\ response.commits[1].commit.sha = args.sha
              /\ response.count = Some(1)

\* the repository holds three commits and the caller passed no limit: two
\* commits came back
C21_Witness ==
    /\ tpc = "returned"
    /\ op = "get_latest_commit_with_diff"
    /\ args.limit = None
    /\ Len(world.commits) = 3
    /\ response.status = "success"
    /\ Len(response.commits) = 2

----------------------------------------------------------------------------
(* The function-schema builder: _extract_function_schema, the same code in
   SimpleGitHubAgent and in the full executor. A text is a sequence of
   tokens, the token "\n" being the line break. *)

MaxParams == 2     \* parameters of a tool function

\* what a parameter may be annotated with; "empty" is
\* inspect.Parameter.empty
Annotations ==
    { "empty", "int", "float", "bool", "list", "dict", "str",
      "int | None", "list[str]" }

\* the parameters of a signature: the name stands for the position
ParamLists ==
    UNION { {ps \in [1..n -> [name : 1..MaxParams, annotation : Annotations,
                              has_default : BOOLEAN]] :
                \A i \in 1..n : ps[i].name = i} : n \in 0..MaxParams }

\* the documentation texts inspect.getdoc(func) may return: None, the empty
\* text, one line, and a first line followed by others
DocTexts ==
    { None, Some(<<>>), Some(<<"Get repositories">>),
      Some(<<"Get repositories", "\n", "\n", "Args:">>) }

\* docstring.split('\n'): the pieces between the line breaks, at least one
RECURSIVE Split(_, _)
Split(text, piece) ==
    IF text = <<>> THEN <<piece>>
    ELSE IF Head(text) = "\n" THEN <<piece>> \o Split(Tail(text), <<>>)
    ELSE Split(Tail(text), Append(piece, Head(text)))

\* inspect.getdoc(func) or ''
DocOrEmpty(doc) == IF doc = None \/ doc = Some(<<>>) THEN <<>> ELSE doc[1]

\* lines[0] if lines else func.__name__
Description(f) ==
    LET lines == Split(DocOrEmpty(f.doc), <<>>)
    IN IF lines # <<>> THEN lines[1] ELSE <<f.name>>

\* the chain of comparisons of param.annotation with int, float, bool,
\* list and dict
ParamType(annotation) ==
    IF annotation = "empty" THEN "string"
    ELSE CASE annotation = "int" -> "integer"
           [] annotation = "float" -> "number"
           [] annotation = "bool" -> "boolean"
           [] annotation = "list" -> "array"
           [] annotation = "dict" -> "object"
           [] OTHER -> "string"

\* properties[param_name] = {...}, in the order of the parameters
Properties(ps) ==
    [i \in 1..Len(ps) |->
        [name |-> ps[i].name, type |-> ParamType(ps[i].annotation),
         description |-> <<"Parameter", ps[i].name>>]]

\* required.append(param_name) for the parameters without default
RECURSIVE Required(_, _)
Required(ps, i) ==
    IF i > Len(ps) THEN <<>>
    ELSE (IF ps[i].has_default THEN <<>> ELSE <<ps[i].name>>) \o Required(ps, i + 1)

SchemaInit ==
    /\ LoopIdle
    /\ ExtractIdle
    /\ ToolsIdle
    /\ WebIdle
    /\ ClientIdle
    /\ func \in [name : {"get_user_repositories"}, doc : DocTexts, params : ParamLists]
    /\ schema = <<>>
    /\ spc = "ready"

_extract_function_schema ==
    /\ spc = "ready"
    /\ schema' = [name |-> func.name,
                  description |-> Description(func),
                  parameters |-> [type |-> "object",
                                  properties |-> Properties(func.params),
                                  required |-> Required(func.params, 1)]]
    /\ spc' = "returned"
    /\ UNCHANGED <<besidesSchema, func>>

SchemaNext == _extract_function_schema

SpecSchema == SchemaInit /\ [][SchemaNext]_vars

\* the kind of value a parameter is declared to take
DeclaredKind(annotation) ==
    CASE annotation \in {"int", "int | None"} -> "integer"
      [] annotation = "float" -> "floating-point"
      [] annotation = "bool" -> "boolean"
      [] annotation \in {"list", "list[str]"} -> "sequence"
      [] annotation = "dict" -> "mapping"
      [] OTHER -> "other"

KindType(kind) ==
    CASE kind = "integer" -> "integer"
      [] kind = "floating-point" -> "number"
      [] kind = "boolean" -> "boolean"
      [] kind = "sequence" -> "array"
      [] kind = "mapping" -> "object"
      [] OTHER -> "string"

\* C22: a parameter is listed in required exactly when it has no default,
\* and its type is that of the kind of value it is declared to take:
\* integer, number, boolean, array, object, and string for anything else
\* and for a parameter without annotation.
C22_RequiredAndTypes ==
    spc = "returned" =>
        \A i \in 1..Len(func.params) :
            /\ (\E k \in 1..Len(schema.parameters.required) :
                    schema.parameters.required[k] = func.params[i].name)
                 <=> ~func.params[i].has_default
            /\ schema.parameters.properties[i].type =
                  KindType(DeclaredKind(func.params[i].annotation))

\* the tokens of a text before its first line break
RECURSIVE FirstLine(_)
FirstLine(text) ==
    IF text = <<>> \/ Head(text) = "\n" THEN <<>>
    ELSE <<Head(text)>> \o FirstLine(Tail(text))

\* C23: the description of the schema is the first line of the tool's
\* documentation, or the tool's name when the tool has no documentation.
C23_DescriptionOrName ==
    spc = "returned" =>
        schema.description =
            IF func.doc = None \/ func.doc = Some(<<>>) THEN <<func.name>>
            ELSE FirstLine(func.doc[1])

----------------------------------------------------------------------------
(* The web application: the OAuth endpoints, logout and the API endpoints
   of main_app.py over the dicts oauth_states and sessions and the token
   storage. State values and session ids are random tokens; they are numbered
   in the order they are generated. Time is counted in ticks. *)

MaxStates == 2       \* state values /auth/login generates
MaxSessions == 2     \* session ids generated
MaxTicks == 2        \* ticks of the clock
MaxExchanges == 2    \* token exchanges begun for one state value

ExpirySeconds == 600 \* the age after which /auth/login removes a state
TickSeconds == ExpirySeconds \* seconds in a tick: the age limit itself

Users == {"u1", "u2"}

\* a faulty variant of Popped: the dict is emptied
PoppedAll(d, k) == <<>>

\* a dict with the key k set to v, and without the key k
Stored(d, k, v) == [x \in DOMAIN d \cup {k} |-> IF x = k THEN v ELSE d[x]]
Popped(d, k) == [x \in DOMAIN d \ {k} |-> d[x]]

\* request.cookies.get("session_id"): 0 stands for no cookie, a number for
\* the session id of that number
Cookies == 0..MaxSessions

\* a faulty variant of get_user_session: any stored session is taken for the
\* one of the request
get_user_sessionAny(session_id) ==
    IF sessions # <<>>
    THEN Some(sessions[CHOOSE k \in DOMAIN sessions : TRUE])
    ELSE None

\* get_user_session(session_id): the session stored under the id, or None
get_user_session(session_id) ==
    IF session_id \in DOMAIN sessions THEN Some(sessions[session_id]) ELSE None

\* not user_session or not user_session.authenticated
NotAuthenticated(user_session) ==
    user_session = None \/ ~user_session[1].authenticated

\* a faulty variant of Expired: a state is removed from the age of 600
\* seconds on
ExpiredFromLimit(created_at) == (now - created_at) * TickSeconds >= ExpirySeconds

\* (now - created_at).total_seconds() > 600
Expired(created_at) == (now - created_at) * TickSeconds > ExpirySeconds

\* the response of a handler
Response(endpoint, cookie, status, body) ==
    [endpoint |-> endpoint, cookie_sent |-> cookie # 0,
     had_session |-> cookie \in DOMAIN sessions,
     status |-> status, body |-> body,
     location |-> None, query |-> None, token |-> None, set_cookie |-> None,
     chat_status |-> "",
     agent_created |-> FALSE]

\* generate_authorization_url: the URL and the parameters it carries
generate_authorization_url(state) ==
    [url |-> "https://github.com/login/oauth/authorize",
     params |-> {"client_id", "redirect_uri", "scope", "state", "allow_signup"},
     state |-> state]

\* GET /auth/login
login ==
    /\ issued < MaxStates
    /\ issued' = issued + 1
    /\ oauth_states' =
          Stored([s \in {t \in DOMAIN oauth_states :
                            ~Expired(oauth_states[t].created_at)} |->
                      oauth_states[s]],
                  issued + 1, [created_at |-> now, used |-> FALSE])
    /\ last' = [Response("/auth/login", 0, 307, "")
                   EXCEPT !.location = Some(generate_authorization_url(issued + 1))]
    /\ UNCHANGED <<besidesWeb, sessions, tokens, now, sessions_made, pending, exchanges>>

\* the query parameters of a callback: error and code given or not, state
\* None or a value, 0 standing for a value /auth/login never generated
StateParams == {None} \cup {Some(v) : v \in 0..MaxStates}

Query(error, code, state) == [error |-> error, code |-> code, state |-> state]

\* the requests GitHub's redirect and a client of its own making send: an
\* error comes without code; the state varies where the handler reads it,
\* in a request with a code and without error
Queries ==
    {q \in [error : BOOLEAN, code : BOOLEAN, state : StateParams] :
        /\ q.error => ~q.code
        /\ ~q.code => q.state \in {None, Some(1)}}

\* the error page of /auth/callback, in answer to a request
ErrorPage(query, text) ==
    [Response("/auth/callback", 0, 200, text) EXCEPT !.query = Some(query)]

\* a faulty variant of MarkUsed: the state is left as it is
MarkUsedNot(states, state) == states

\* oauth_states[state]['used'] = True
MarkUsed(states, state) == [states EXCEPT ![state].used = TRUE]

\* GET /auth/callback up to the await of the token exchange
oauth_callback_begin ==
    \E q \in Queries :
      LET error == q.error
          code == q.code
          state == q.state
      IN
        /\ state # None => state[1] <= issued
        /\ IF error THEN
              /\ last' = ErrorPage(Query(error, code, state), "OAuth error")
              /\ UNCHANGED <<oauth_states, pending, exchanges>>
           ELSE IF ~code THEN
              /\ last' = ErrorPage(Query(error, code, state),
                                    "Authentication failed: 400: Authorization code not provided")
              /\ UNCHANGED <<oauth_states, pending, exchanges>>
           ELSE IF state = None \/ state[1] \notin DOMAIN oauth_states THEN
              /\ last' = ErrorPage(Query(error, code, state),
                                    "Authentication failed: 400: Invalid state parameter")
              /\ UNCHANGED <<oauth_states, pending, exchanges>>
           ELSE IF oauth_states[state[1]].used THEN
              /\ last' = ErrorPage(Query(error, code, state),
                                    "Authentication failed: 400: State already used")
              /\ UNCHANGED <<oauth_states, pending, exchanges>>
           ELSE
              /\ exchanges[state[1]] < MaxExchanges
              /\ oauth_states' = MarkUsed(oauth_states, state[1])
              /\ exchanges' = [exchanges EXCEPT ![state[1]] = @ + 1]
              /\ pending' = [pending EXCEPT ![state[1]] = @ + 1]
              /\ UNCHANGED last
        /\ UNCHANGED <<besidesWeb, sessions, tokens, now, issued, sessions_made>>

\* what the awaited exchange_code_for_token does: it raises, or returns a
\* token whose user_id and user_login GitHub's user record filled, "" where
\* the record lacks the field
ExchangeOutcomes ==
    {[raised |-> TRUE, user_id |-> "", user_login |-> ""]} \cup
    {[raised |-> FALSE, user_id |-> u, user_login |-> "login"] :
        u \in Users \cup {""}} \cup
    {[raised |-> FALSE, user_id |-> "u1", user_login |-> ""]}

\* a faulty variant of TokenUsable: only the login is looked at
TokenUsableByLogin(token) == token.user_login # ""

\* the negation of: not token.user_id or not token.user_login
TokenUsable(token) == token.user_id # "" /\ token.user_login # ""

\* a faulty variant of create_user_session: the login is left out
create_user_sessionWithoutLogin(user_id, user_login) ==
    [user_id |-> user_id, user_login |-> "", authenticated |-> TRUE]

\* the entry create_user_session stores under a fresh session id
create_user_session(user_id, user_login) ==
    [user_id |-> user_id, user_login |-> user_login, authenticated |-> TRUE]

\* GET /auth/callback from the return of the token exchange on
oauth_callback_finish ==
    \E state \in 0..MaxStates, token \in ExchangeOutcomes :
        /\ pending[state] > 0
        /\ pending' = [pending EXCEPT ![state] = @ - 1]
        /\ IF token.raised THEN
              /\ last' = [ErrorPage(Query(FALSE, TRUE, Some(state)),
                                     "Authentication failed: exchange")
                             EXCEPT !.token = Some(token)]
              /\ UNCHANGED <<sessions, tokens, sessions_made>>
           ELSE IF ~TokenUsable(token) THEN
              /\ last' = [ErrorPage(Query(FALSE, TRUE, Some(state)),
                                     "Authentication failed: Failed to get user information")
                             EXCEPT !.token = Some(token)]
              /\ UNCHANGED <<sessions, tokens, sessions_made>>
           ELSE
              /\ sessions_made < MaxSessions
              /\ tokens' = Stored(tokens, token.user_id,
                                   [user_id |-> token.user_id,
                                    user_login |-> token.user_login,
                                    state |-> state])
              /\ sessions_made' = sessions_made + 1
              /\ sessions' = Stored(sessions, sessions_made + 1,
                                     create_user_session(token.user_id,
                                                         token.user_login))
              /\ last' = [Response("/auth/callback", 0, 307, "/")
                             EXCEPT !.query = Some(Query(FALSE, TRUE, Some(state))),
                                    !.token = Some(token),
                                    !.set_cookie = Some(sessions_made + 1)]
        /\ UNCHANGED <<besidesWeb, oauth_states, now, issued, exchanges>>

\* GET /auth/logout
logout ==
    \E cookie \in Cookies :
        /\ cookie <= sessions_made
        /\ LET user_session == get_user_session(cookie) IN
             IF user_session # None THEN
                /\ tokens' = Popped(tokens, user_session[1].user_id)
                /\ sessions' = Popped(sessions, cookie)
             ELSE UNCHANGED <<sessions, tokens>>
        /\ last' = Response("/auth/logout", cookie, 307, "/")
        /\ UNCHANGED <<besidesWeb, oauth_states, now, issued, sessions_made,
                       pending, exchanges>>

\* GET /api/user
get_user_info ==
    \E cookie \in Cookies :
        /\ cookie <= sessions_made
        /\ last' = IF NotAuthenticated(get_user_session(cookie))
                   THEN Response("/api/user", cookie, 401, "Not authenticated")
                   ELSE Response("/api/user", cookie, 200, "user")
        /\ UNCHANGED <<besidesWeb, oauth_states, sessions, tokens, now, issued,
                       sessions_made, pending, exchanges>>

\* what the except clause of /api/repositories makes of an exception raised
\* in its try block: HTTPException is an Exception, so whatever status it
\* carried, the answer is 500
RepositoriesExcept(status) == 500

\* GET /api/repositories
get_user_repositories_endpoint ==
    \E cookie \in Cookies, outcome \in {"success", "error", "raises"} :
        /\ cookie <= sessions_made
        /\ last' =
             IF NotAuthenticated(get_user_session(cookie))
             THEN Response("/api/repositories", cookie, RepositoriesExcept(401),
                           "Not authenticated")
             ELSE IF outcome = "success"
             THEN [Response("/api/repositories", cookie, 200, "repositories")
                     EXCEPT !.agent_created = TRUE]
             ELSE [Response("/api/repositories", cookie, RepositoriesExcept(500), outcome)
                     EXCEPT !.agent_created = TRUE]
        /\ UNCHANGED <<besidesWeb, oauth_states, sessions, tokens, now, issued,
                       sessions_made, pending, exchanges>>

\* the ChatResponse of /api/chat: its response text and its status
ChatResponse(cookie, text, status) ==
    [Response("/api/chat", cookie, 200, text) EXCEPT !.chat_status = status]

\* POST /api/chat
chat_with_agent ==
    \E cookie \in Cookies, raises \in BOOLEAN :
        /\ cookie <= sessions_made
        /\ last' =
             IF NotAuthenticated(get_user_session(cookie))
             THEN ChatResponse(cookie, "Please authenticate with GitHub first.", "error")
             ELSE IF raises
             THEN [ChatResponse(cookie, "Sorry, I encountered an error processing your request.", "error")
                     EXCEPT !.agent_created = TRUE]
             ELSE [ChatResponse(cookie, "response_text", "success")
                     EXCEPT !.agent_created = TRUE]
        /\ UNCHANGED <<besidesWeb, oauth_states, sessions, tokens, now, issued,
                       sessions_made, pending, exchanges>>

\* the clock advances
Tick ==
    /\ now < MaxTicks
    /\ now' = now + 1
    /\ UNCHANGED <<besidesWeb, oauth_states, sessions, tokens, issued,
                   sessions_made, pending, exchanges, last>>

WebInit ==
    /\ LoopIdle /\ ExtractIdle /\ ToolsIdle /\ SchemaIdle /\ ClientIdle
    /\ oauth_states = <<>>
    /\ sessions = <<>>
    /\ tokens = <<>>
    /\ now = 0
    /\ issued = 0
    /\ sessions_made = 0
    /\ pending = [s \in 0..MaxStates |-> 0]
    /\ exchanges = [s \in 0..MaxStates |-> 0]
    /\ last = Response("", 0, 0, "")

WebNext ==
    \/ login
    \/ oauth_callback_begin
    \/ oauth_callback_finish
    \/ logout
    \/ get_user_info
    \/ get_user_repositories_endpoint
    \/ chat_with_agent
    \/ Tick

SpecWeb == WebInit /\ [][WebNext]_vars

----------------------------------------------------------------------------
(* Claims about the web application *)

\* C24: a request without authenticated session is answered with HTTP 401
\* by GET /api/user and by GET /api/repositories.
C24_Unauthenticated401 ==
    (last.endpoint \in {"/api/user", "/api/repositories"} /\ ~last.had_session)
        => last.status = 401

\* C25: POST /api/chat without authenticated session answers HTTP 200 with
\* the text 'Please authenticate with GitHub first.' and status error, and
\* creates no agent (so no model call and no tool call is made).
C25_ChatAsksToAuthenticate ==
    (last.endpoint = "/api/chat" /\ ~last.had_session)
        => /\ last.status = 200
           /\ last.body = "Please authenticate with GitHub first."
           /\ last.chat_status = "error"
           /\ ~last.agent_created

\* an unauthenticated chat request, carrying the cookie of a session that
\* was logged out, while another session is stored
C25_Witness ==
    /\ last.endpoint = "/api/chat"
    /\ ~last.had_session
    /\ last.cookie_sent
    /\ DOMAIN sessions # {}

\* C26: GET /auth/login redirects to the GitHub authorization URL carrying
\* client_id and a freshly generated state, records that state with
\* used = False, and leaves the stored states not older than 10 minutes
\* unchanged.
C26_LoginRecordsState ==
    [][issued' # issued =>
        /\ last'.endpoint = "/auth/login"
        /\ last'.status = 307
        /\ last'.location # None
        /\ last'.location[1].url = "https://github.com/login/oauth/authorize"
        /\ "client_id" \in last'.location[1].params
        /\ "state" \in last'.location[1].params
        /\ last'.location[1].state \notin DOMAIN oauth_states
        /\ last'.location[1].state \in DOMAIN oauth_states'
        /\ ~oauth_states'[last'.location[1].state].used
        /\ \A s \in DOMAIN oauth_states :
              (now - oauth_states[s].created_at) * TickSeconds <= 10 * 60
                  => /\ s \in DOMAIN oauth_states'
                     /\ oauth_states'[s] = oauth_states[s]]_vars

\* the second login, made when the first state is exactly 10 minutes old
C26_Witness ==
    /\ last.endpoint = "/auth/login"
    /\ last.location[1].state = 2
    /\ oauth_states[2].created_at = now
    /\ 1 \in DOMAIN oauth_states
    /\ (now - oauth_states[1].created_at) * TickSeconds = 10 * 60

\* C29: each state value leads to at most one token exchange: an exchange
\* is begun only for a state stored in oauth_states with used = False, which
\* is marked used before the exchange is awaited; a callback with a state
\* already used is rejected as already used, one with a state that login
\* never issued as invalid, and neither begins an exchange.
C29_OneExchangePerState ==
    [][/\ \A s \in 0..MaxStates :
            /\ exchanges'[s] <= 1
            /\ exchanges'[s] # exchanges[s] =>
                  /\ s \in DOMAIN oauth_states
                  /\ ~oauth_states[s].used
                  /\ oauth_states'[s].used
                  /\ pending'[s] = pending[s] + 1
            /\ pending'[s] > pending[s] => exchanges'[s] # exchanges[s]
       /\ (last' # last /\ last'.endpoint = "/auth/callback"
              /\ last'.body = "Authentication failed: 400: State already used")
            => /\ oauth_states[last'.query[1].state[1]].used
               /\ UNCHANGED <<exchanges, pending>>
       /\ (last' # last /\ last'.endpoint = "/auth/callback"
              /\ last'.body = "Authentication failed: 400: Invalid state parameter")
            => /\ \/ last'.query[1].state = None
                  \/ last'.query[1].state[1] \notin DOMAIN oauth_states
               /\ UNCHANGED <<exchanges, pending>>
      ]_vars

\* a second callback with a state was rejected as already used while the
\* first one is suspended in the exchange
C29_Witness ==
    /\ last.endpoint = "/auth/callback"
    /\ last.body = "Authentication failed: 400: State already used"
    /\ pending[last.query[1].state[1]] = 1
    /\ exchanges[last.query[1].state[1]] = 1

\* the callback answered in the step fails at one of its checks
FailsAtCheck ==
    /\ last' # last
    /\ last'.endpoint = "/auth/callback"
    /\ last'.token = None
    /\ LET q == last'.query[1] IN
         \/ q.error
         \/ ~q.code
         \/ q.state = None
         \/ q.state[1] \notin DOMAIN oauth_states
         \/ oauth_states[q.state[1]].used

\* the callback resumed in the step fails in the exchange: it raises or
\* returns a token with empty user_id or user_login
FailsInExchange ==
    /\ \E s \in 0..MaxStates : pending'[s] < pending[s]
    /\ \/ last'.token[1].raised
       \/ last'.token[1].user_id = ""
       \/ last'.token[1].user_login = ""

\* C30: a callback that fails at a check, or whose token exchange raises or
\* returns a token with empty user_id or user_login, leaves token_storage
\* and sessions unchanged and sets no session cookie; a state for which an
\* exchange was begun stays marked used, so it cannot be replayed.
C30_FailedCallbackChangesNothing ==
    [][/\ (FailsAtCheck \/ FailsInExchange) =>
            /\ UNCHANGED <<sessions, tokens, oauth_states>>
            /\ last'.set_cookie = None
            /\ last'.status = 200
       /\ \A s \in DOMAIN oauth_states' :
            exchanges'[s] > 0 => oauth_states'[s].used
      ]_vars

\* the exchange returned a token without user_id for a state, which stays
\* marked used, while a token and a session of an earlier login are stored
C30_Witness ==
    /\ last.endpoint = "/auth/callback"
    /\ last.token = Some([raised |-> FALSE, user_id |-> "", user_login |-> "login"])
    /\ oauth_states[last.query[1].state[1]].used
    /\ pending[last.query[1].state[1]] = 0
    /\ DOMAIN sessions # {}
    /\ DOMAIN tokens # {}

----------------------------------------------------------------------------
(* Claims about the defaults and the client of the toolset *)

\* C27: get_user_repositories called without days and without limit uses
\* the defaults its documentation states: it returns the repositories
\* updated in the last 30 days, at most 10 of them.
C27_DocumentedDefaults ==
    (/\ tpc = "returned"
     /\ op = "get_user_repositories"
     /\ response.status = "success"
     /\ args.days = None
     /\ args.limit = None)
        => response = ReposSuccess(Take(RecentRepos(world.repos, DocumentedReposDays, 1),
                                        DocumentedReposLimit),
                                   DocumentedReposDays)

(* GitHubToolset._get_github_client on one toolset instance, while the
   token storage and the environment change around it. A client is the
   credential it was constructed with and the number of its construction. *)

MaxCalls == 3    \* calls of _get_github_client on the instance

AccessTokens == {"", "gho_a", "gho_b"}
UserIds == {None, Some("")} \cup {Some(u) : u \in Users}
Environs == {None, Some(""), Some("ghp_env")}

TokenStores ==
    UNION {[us -> [access_token : AccessTokens]] : us \in SUBSET Users}

\* a faulty variant of Credentials: the environment token comes first
CredentialsEnvFirst(user_id, storage, env) ==
    IF env # None /\ env[1] # ""
    THEN Some(env[1])
    ELSE IF /\ user_id # None
            /\ user_id[1] \in DOMAIN storage
            /\ storage[user_id[1]].access_token # ""
    THEN Some(storage[user_id[1]].access_token)
    ELSE None

\* the credential the client is constructed with: the access token of the
\* stored token of self._user_id, or GITHUB_TOKEN, or none; an empty
\* string counts as absent
Credentials(user_id, storage, env) ==
    IF /\ user_id # None
       /\ user_id[1] # ""
       /\ user_id[1] \in DOMAIN storage
       /\ storage[user_id[1]].access_token # ""
    THEN Some(storage[user_id[1]].access_token)
    ELSE IF env # None /\ env[1] # ""
    THEN Some(env[1])
    ELSE None

\* Github(auth=Auth.Token(...)) and Github(): a new object
Github(auth) == [auth |-> auth, object |-> clients_made + 1]

_get_github_client ==
    /\ Len(returned) < MaxCalls
    /\ IF _github_client = None
       THEN /\ _github_client' = Some(Github(Credentials(_user_id, tokens, environ)))
            /\ clients_made' = clients_made + 1
       ELSE UNCHANGED <<_github_client, clients_made>>
    /\ returned' = Append(returned, _github_client'[1])
    /\ UNCHANGED <<besidesClient, tokens, _user_id, environ, runs_as>>

\* token_storage.store_token, called by a login of the user
store_token ==
    \E u \in Users, a \in AccessTokens :
        /\ tokens' = Stored(tokens, u, [access_token |-> a])
        /\ tokens' # tokens
        /\ UNCHANGED <<besidesClient, clientVars>>

\* token_storage.remove_token, called by a logout of the user
remove_token ==
    \E u \in DOMAIN tokens :
        /\ tokens' = Popped(tokens, u)
        /\ UNCHANGED <<besidesClient, clientVars>>

\* GITHUB_TOKEN is set, changed or unset
setenv ==
    \E v \in Environs :
        /\ v # environ
        /\ environ' = v
        /\ UNCHANGED <<besidesClient, tokens, _user_id, _github_client,
                       clients_made, returned, runs_as>>

ClientInit ==
    /\ LoopIdle /\ ExtractIdle /\ ToolsIdle /\ SchemaIdle
    /\ oauth_states = <<>>
    /\ sessions = <<>>
    /\ now = 0
    /\ issued = 0
    /\ sessions_made = 0
    /\ pending = <<>>
    /\ exchanges = <<>>
    /\ last = [endpoint |-> ""]
    /\ tokens \in TokenStores
    /\ _user_id \in UserIds
    /\ environ \in Environs
    /\ _github_client = None
    /\ clients_made = 0
    /\ returned = <<>>
    /\ runs_as = <<>>

ClientNext ==
    \/ _get_github_client
    \/ store_token
    \/ remove_token
    \/ setenv

SpecClient == ClientInit /\ [][ClientNext]_vars

\* C28: _get_github_client constructs the client with the access token of
\* the stored token of the toolset's user_id when that token exists and is
\* not empty, otherwise with the GITHUB_TOKEN of the environment, otherwise
\* without credentials; once constructed, the same client is returned by
\* every later call on the instance.
C28_ClientPriorityAndReuse ==
    [][Len(returned') > Len(returned) =>
        LET client == returned'[Len(returned')]
            stored == /\ _user_id \notin {None, Some("")}
                      /\ _user_id[1] \in DOMAIN tokens
                      /\ tokens[_user_id[1]].access_token # ""
            inEnv == environ \notin {None, Some("")}
        IN /\ _github_client' = Some(client)
           /\ \A i \in 1..Len(returned') : returned'[i] = client
           /\ clients_made' = 1
           /\ _github_client = None =>
                 /\ stored => client.auth = Some(tokens[_user_id[1]].access_token)
                 /\ (~stored /\ inEnv) => client.auth = environ
                 /\ (~stored /\ ~inEnv) => client.auth = None
           /\ _github_client # None => _github_client' = _github_client]_vars

\* the client was constructed with the user's stored token although
\* GITHUB_TOKEN was set, and was returned again after the token was removed
C28_Witness ==
    /\ Len(returned) = 2
    /\ returned[1] = returned[2]
    /\ returned[1].auth = Some("gho_a")
    /\ environ = Some("ghp_env")
    /\ _user_id = Some("u1")
    /\ "u1" \notin DOMAIN tokens

----------------------------------------------------------------------------
(* Claims about sessions, tokens and logout *)

\* C31: sessions gains an entry only in oauth_callback, after a successful
\* token exchange and with the token stored; every stored session has
\* authenticated = True and the user_id and user_login of the exchanged
\* token, both non-empty; a request without cookie or with an unknown
\* session id is treated as unauthenticated and adds no entry.
C31_SessionsOnlyFromCallback ==
    [][/\ \A sid \in DOMAIN sessions' \ DOMAIN sessions :
            /\ last'.endpoint = "/auth/callback"
            /\ last'.token # None
            /\ ~last'.token[1].raised
            /\ last'.set_cookie = Some(sid)
            /\ sessions'[sid].authenticated
            /\ sessions'[sid].user_id = last'.token[1].user_id
            /\ sessions'[sid].user_login = last'.token[1].user_login
            /\ sessions'[sid].user_id # ""
            /\ sessions'[sid].user_login # ""
            /\ sessions'[sid].user_id \in DOMAIN tokens'
            /\ tokens'[sessions'[sid].user_id].user_id = sessions'[sid].user_id
       /\ \A sid \in DOMAIN sessions \cap DOMAIN sessions' :
            sessions'[sid] = sessions[sid]
       /\ (/\ last' # last
           /\ last'.endpoint \in {"/api/user", "/api/repositories", "/api/chat",
                                   "/auth/logout"}
           /\ ~last'.had_session)
            => /\ sessions' = sessions
               /\ ~last'.agent_created
               /\ last'.endpoint = "/api/user" => last'.status = 401
               /\ last'.endpoint = "/api/chat" => last'.chat_status = "error"
               /\ last'.endpoint = "/api/repositories" => last'.status # 200
      ]_vars

\* the second login of a user was completed: two sessions are stored, with
\* the user and the login of the token exchanged last
C31_Witness ==
    /\ last.endpoint = "/auth/callback"
    /\ last.set_cookie = Some(2)
    /\ DOMAIN sessions = {1, 2}
    /\ sessions[2].user_id = last.token[1].user_id
    /\ sessions[1].user_id = sessions[2].user_id

\* C32: a logout with a valid session removes that session and the stored
\* token of its user, and the session id is never valid again; a logout
\* without valid session changes neither sessions nor the token storage;
\* the sessions and the tokens of other users are untouched.
C32_LogoutRemovesSessionAndToken ==
    [][/\ \A sid \in DOMAIN sessions \ DOMAIN sessions' :
            /\ last'.endpoint = "/auth/logout"
            /\ last'.had_session
            /\ DOMAIN sessions' = DOMAIN sessions \ {sid}
            /\ sessions[sid].user_id \notin DOMAIN tokens'
            /\ \A u \in DOMAIN tokens \ {sessions[sid].user_id} :
                  u \in DOMAIN tokens' /\ tokens'[u] = tokens[u]
            /\ DOMAIN tokens' \subseteq DOMAIN tokens
       /\ \A sid \in DOMAIN sessions \cap DOMAIN sessions' :
            sessions'[sid] = sessions[sid]
       /\ \A sid \in 1..sessions_made :
            sid \notin DOMAIN sessions => sid \notin DOMAIN sessions'
       /\ (last' # last /\ last'.endpoint = "/auth/logout" /\ ~last'.had_session)
            => UNCHANGED <<sessions, tokens>>
       /\ (last'.endpoint = "/auth/logout" /\ last'.had_session /\ last' # last)
            => DOMAIN sessions' # DOMAIN sessions
      ]_vars

\* one user logged out while the session and the token of another user
\* are stored
C32_Witness ==
    /\ last.endpoint = "/auth/logout"
    /\ last.had_session
    /\ DOMAIN sessions = {2}
    /\ DOMAIN tokens = {sessions[2].user_id}
    /\ sessions_made = 2

\* C33: whenever sessions holds an authenticated session for a user,
\* token_storage holds a token for that user.
C33_SessionImpliesToken ==
    \A sid \in DOMAIN sessions :
        sessions[sid].authenticated => sessions[sid].user_id \in DOMAIN tokens

\* C38: oauth_callback begins the token exchange only for a state that
\* /auth/login issued at most 600 seconds earlier.
C38_OldStateNeverAccepted ==
    [][\A s \in DOMAIN oauth_states :
          exchanges'[s] # exchanges[s] =>
              (now - oauth_states[s].created_at) * TickSeconds <= 10 * 60]_vars

----------------------------------------------------------------------------
(* The credentials of a chat turn: SimpleGitHubAgent.chat for one user, from
   its token check on, with one tool call per round, while logouts and
   logins of other requests run where the turn is suspended awaiting the
   model. The client is made by the first tool call of the turn. *)

\* the access token GitHub issues to a user, and the account it stands for
TokenOf(u) == IF u = "u1" THEN "gho_a" ELSE "gho_b"
LoginOf(u) == IF u = "u1" THEN "alice" ELSE "bob"

\* github.get_user().login: the account of the client's credential; None
\* for an unauthenticated client, whose get_user() raises
AccountOf(auth) ==
    IF auth = None THEN None
    ELSE IF auth[1] = "ghp_env" THEN Some("server")
    ELSE IF auth[1] = "gho_a" THEN Some("alice")
    ELSE Some("bob")

\* what token_storage can hold at the start of a turn
AgentTokenStores ==
    {st \in UNION {[us -> [access_token : AccessTokens,
                           user_login : {"alice", "bob"}]] : us \in SUBSET Users} :
        \A u \in DOMAIN st : /\ st[u].access_token \in {"", TokenOf(u)}
                              /\ st[u].user_login = LoginOf(u)}

AuthenticateFirstText ==
    [kind |-> "authenticate", text |-> "You need to authenticate with GitHub first"]

\* a faulty variant of HasToken: an empty access token passes
HasTokenOfAnyValue(storage, user_id) == user_id \in DOMAIN storage

\* the negation of: not oauth_token or not oauth_token.access_token
HasToken(storage, user_id) ==
    user_id \in DOMAIN storage /\ storage[user_id].access_token # ""

\* what the turn leaves alone
agentFrame == <<extractVars, toolVars, schemaVars, oauth_states, sessions, now,
                issued, sessions_made, pending, exchanges, last, surface,
                messages, batch, idx, completes, status_updates, tool_runs,
                raised, varied, returned, _user_id, environ>>

\* chat, up to the loop: the token check
chat_token_check ==
    /\ pc = "start"
    /\ IF HasToken(tokens, _user_id[1])
       THEN pc' = "loop" /\ result' = result
       ELSE pc' = "done" /\ result' = <<AuthenticateFirstText>>
    /\ UNCHANGED <<agentFrame, tokens, iteration, model_calls, _github_client,
                   clients_made, runs_as>>

\* the loop head and the model call
chat_model_call ==
    /\ pc = "loop"
    /\ IF iteration < ChatMaxIterations
       THEN /\ iteration' = iteration + 1
            /\ model_calls' = model_calls + 1
            /\ pc' = "await"
            /\ result' = result
       ELSE /\ pc' = "done"
            /\ result' = <<ExceededText>>
            /\ UNCHANGED <<iteration, model_calls>>
    /\ UNCHANGED <<agentFrame, tokens, _github_client, clients_made, runs_as>>

\* the model's reply: a tool call, a final text, neither, or a failure
chat_model_reply ==
    \E reply \in {"tool", "final", "empty", "raises"} :
        /\ pc = "await"
        /\ CASE reply = "tool" -> pc' = "exec" /\ result' = result
             [] reply = "final" -> pc' = "done" /\ result' = <<AnswerText("final")>>
             [] reply = "empty" -> pc' = "done" /\ result' = <<ExceededText>>
             [] reply = "raises" -> pc' = "done" /\ result' = <<ErrorText("model")>>
        /\ UNCHANGED <<agentFrame, tokens, iteration, model_calls, _github_client,
                       clients_made, runs_as>>

\* the owner whose repositories a tool reads: the login of the stored token,
\* else the account of the client
owner_login(storage, user_id, client) ==
    IF user_id \in DOMAIN storage /\ storage[user_id].user_login # ""
    THEN Some(storage[user_id].user_login)
    ELSE AccountOf(client.auth)

\* a tool call of the turn: the client is made if there is none yet
chat_tool_call ==
    /\ pc = "exec"
    /\ IF _github_client = None
       THEN /\ _github_client' = Some(Github(Credentials(_user_id, tokens, environ)))
            /\ clients_made' = clients_made + 1
       ELSE UNCHANGED <<_github_client, clients_made>>
    /\ runs_as' = Append(runs_as,
                         [auth |-> _github_client'[1].auth,
                          owner |-> owner_login(tokens, _user_id[1], _github_client'[1])])
    /\ pc' = "loop"
    /\ UNCHANGED <<agentFrame, tokens, iteration, model_calls, result>>

\* GET /auth/logout of a session of a user, while the turn is suspended
logout_meanwhile ==
    \E u \in DOMAIN tokens :
        /\ pc = "await"
        /\ tokens' = Popped(tokens, u)
        /\ UNCHANGED <<agentFrame, pc, iteration, model_calls, result,
                       _github_client, clients_made, runs_as>>

\* GET /auth/callback of a login of a user, while the turn is suspended
callback_meanwhile ==
    \E u \in Users :
        /\ pc = "await"
        /\ tokens' = Stored(tokens, u, [access_token |-> TokenOf(u),
                                        user_login |-> LoginOf(u)])
        /\ tokens' # tokens
        /\ UNCHANGED <<agentFrame, pc, iteration, model_calls, result,
                       _github_client, clients_made, runs_as>>

AgentInit ==
    /\ ExtractIdle /\ ToolsIdle /\ SchemaIdle
    /\ surface = "chat"
    /\ pc = "start"
    /\ iteration = 0
    /\ messages = InitialMessages
    /\ batch = <<>>
    /\ idx = 0
    /\ result = <<>>
    /\ completes = 0
    /\ status_updates = 0
    /\ model_calls = 0
    /\ tool_runs = <<>>
    /\ raised = "none"
    /\ varied = 0
    /\ oauth_states = <<>>
    /\ sessions = <<>>
    /\ now = 0
    /\ issued = 0
    /\ sessions_made = 0
    /\ pending = <<>>
    /\ exchanges = <<>>
    /\ last = [endpoint |-> ""]
    /\ tokens \in AgentTokenStores
    /\ _user_id \in {Some(u) : u \in Users}
    /\ environ \in Environs
    /\ _github_client = None
    /\ clients_made = 0
    /\ returned = <<>>
    /\ runs_as = <<>>

AgentNext ==
    \/ chat_token_check
    \/ chat_model_call
    \/ chat_model_reply
    \/ chat_tool_call
    \/ logout_meanwhile
    \/ callback_meanwhile

SpecAgent == AgentInit /\ [][AgentNext]_vars

\* C34: every tool call executed in a chat turn for a user runs with that
\* user's own OAuth token and against that user's repositories.
C34_ToolCallsUseOwnToken ==
    \A i \in 1..Len(runs_as) :
        /\ runs_as[i].auth = Some(TokenOf(_user_id[1]))
        /\ runs_as[i].owner = Some(LoginOf(_user_id[1]))

\* C35: chat for a user without stored token, or with a token whose access
\* token is empty, returns the authenticate-first message without model
\* call, without tool call and without modifying token_storage.
C35_NoTokenNoCalls ==
    [][(/\ pc = "start"
        /\ pc' # "start"
        /\ \/ _user_id[1] \notin DOMAIN tokens
           \/ tokens[_user_id[1]].access_token = "")
        => /\ pc' = "done"
           /\ result' = <<AuthenticateFirstText>>
           /\ model_calls' = 0
           /\ runs_as' = <<>>
           /\ _github_client' = None
           /\ tokens' = tokens]_vars

\* the turn of a user whose stored token has an empty access token ended
\* on the token check
C35_Witness ==
    /\ pc = "done"
    /\ result = <<AuthenticateFirstText>>
    /\ _user_id[1] \in DOMAIN tokens
    /\ tokens[_user_id[1]].access_token = ""
    /\ model_calls = 0

----------------------------------------------------------------------------
(* Claims about the end of a turn *)

\* C36: in the full surface every request ends with exactly one artifact
\* added and exactly one task_updater.complete() call, whichever way the
\* loop ends.
C36_OneArtifactOneComplete ==
    (surface = "full" /\ pc = "done") => (Len(result) = 1 /\ completes = 1)

\* C37: chat returns the iteration-exceeded message only when 5 model
\* calls were made in the turn.
C37_ExceededOnlyAtCeiling ==
    (surface = "chat" /\ pc = "done" /\ result = <<ExceededText>>)
        => model_calls = ChatMaxIterations

----------------------------------------------------------------------------
(* Claims about the lines that yield symbols *)

\* C39: the language patterns produce symbols only from added or removed
\* lines: every symbol returned with kind function, class or method has
\* change_type added or removed, and every symbol with change_type modified
\* has kind unknown and is the symbol of a hunk-header line of the patch.
C39_DeclarationsOnlyFromSignedLines ==
    xpc = "returned" =>
        \A i \in 1..Len(symbols) :
            /\ symbols[i].kind \in {"function", "class", "method"}
                  => symbols[i].change_type \in {"added", "removed"}
            /\ symbols[i].change_type = "modified"
                  => /\ symbols[i].kind = "unknown"
                     /\ \E l \in 1..Len(patch.lines) :
                           /\ StartsWith(patch.lines[l], <<"@@">>)
                           /\ symbols[i] \in Range(HunkSymbols(filename, patch.lines[l]))

\* the lines of the patch that the method pattern of the file's language
\* matches
MethodLines ==
    IF ~patch.present THEN {}
    ELSE {l \in 1..Len(patch.lines) :
            PatternMatch(_infer_language_from_filename(filename), "method",
                         patch.lines[l]).ok}

\* C40: for Python and Java files no symbol of kind method is produced:
\* every line the method pattern matches is matched by the func pattern
\* first and is returned with kind function.
C40_NoMethodForPythonAndJava ==
    (xpc = "returned"
       /\ _infer_language_from_filename(filename) \in {"python", "java"}) =>
        /\ \A i \in 1..Len(symbols) : symbols[i].kind # "method"
        /\ \A l \in MethodLines :
              \E i \in 1..Len(symbols) :
                 /\ symbols[i].kind = "function"
                 /\ symbols[i].change_type = ChangeType(patch.lines[l])
                 /\ symbols[i].name =
                       PatternMatch(_infer_language_from_filename(filename),
                                    "method", patch.lines[l]).name

\* a Java file whose patch adds one declaration and removes another, both
\* matched by the method pattern
C40_Witness ==
    /\ xpc = "returned"
    /\ _infer_language_from_filename(filename) = "java"
    /\ Cardinality(MethodLines) = 2
    /\ Len(symbols) = 2
    /\ {symbols[1].change_type, symbols[2].change_type} = {"added", "removed"}
    /\ symbols[1].kind = "function"
    /\ symbols[2].kind = "function"
====
